---- MODULE Spec2Model ----
(***************************************************************************)
(* Browser / BrowserContext target-lifecycle coordinator                   *)
(* (packages/cloudrun/src/cli/commands/render/renderMedia.ts, the Browser  *)
(* and BrowserContext classes).                                            *)
(*                                                                         *)
(* The remote browser is the environment: it sends targetCreated,          *)
(* targetDestroyed and targetInfoChanged events and answers requests.      *)
(* Promise continuations (the code after an `await`) are run from a FIFO   *)
(* microtask queue, one continuation per step.  Every protocol message,    *)
(* response, timer and API call is a task of the event loop: it starts     *)
(* when the microtask queue is empty (run to completion).                  *)
(***************************************************************************)
EXTENDS Integers, Sequences, FiniteSets, TLC

\* ------------------------------------------------------------------ bounds
MaxTargets == 2      \* Target objects constructed in one run
MaxContexts == 2     \* non-default BrowserContext objects constructed in one run
MaxWaits == 2        \* waitForTarget calls in one run
MaxRequests == 1     \* context requests awaiting their response at one time
MaxPermissions == 2  \* names in the list given to overridePermissions
MaxCloses == 2
MaxJobs == 3       \* Browser.close() calls in one run

\* ------------------------------------------------------- the input alphabet
\* Ids are opaque strings that the code only compares for equality: the remote
\* side is taken to name its targets t1, t2 and its contexts ctx1, ctx2 in the
\* order in which it first mentions them.
TargetIdSeq == [i \in 1..MaxTargets |-> "t" \o ToString(i)]       \* <<"t1", "t2">>
CtxIdSeq == [i \in 1..MaxContexts |-> "ctx" \o ToString(i)]      \* <<"ctx1", "ctx2">>
TargetIds == {TargetIdSeq[i] : i \in 1..Len(TargetIdSeq)}
CtxIds == {CtxIdSeq[i] : i \in 1..Len(CtxIdSeq)}
NoCtx == ""                        \* browserContextId absent (falsy)
Types == {"page", "other"}
Urls == {"about:blank", "https://a.com"}
TargetInfos(id, ctxIds) ==
    [targetId : {id}, type : Types, url : Urls, browserContextId : ctxIds]

\* a targetInfoChanged event: the handler reads targetId, type and url only
ChangedInfos(id) == [targetId : {id}, type : Types, url : Urls, browserContextId : {NoCtx}]

\* the jobs the callers of addJob make: a fresh id each, 'still' or another type
JobIdSeq == <<"j1", "j2", "j3", "j4">>
JobTypes == {"still", "video"}

DefaultTimeout == 30000            \* `const {timeout = 30000} = options`
TimeoutOptions == {<<>>, <<0>>, <<1>>}   \* options.timeout: absent, 0, a positive value

VARIABLES
    contexts,        \* Browser.#contexts: Map contextId -> BrowserContext, in insertion order
    contextObjs,     \* every non-default BrowserContext constructed so far: its #id, by identity
    requests,        \* the context requests sent whose response has not come: async calls suspended in `await this.#connection.send(..)`
    targets,         \* Browser.#targets: Map targetId -> Target, in insertion order
    ignoredTargets,  \* Browser.#ignoredTargets
    targetFilter,    \* the configured #targetFilterCallback: the target types it rejects
    isPageTargetCallback, \* the configured #isPageTargetCallback: the target types it accepts
    objs,            \* every Target object registered so far; its index is its identity
    microtasks,      \* continuations of suspended async functions that are ready to run
    waits,           \* the waitForTarget calls made so far
    evaluating,      \* the `check` calls suspended on the promise of an asynchronous predicate
    connection,      \* the Connection: its _closed flag and the Disconnected events it emitted
    browserDisconnected, \* the Disconnected events the Browser emitted so far
    closeCallback,   \* the calls of the configured #closeCallback so far
    closeCalls,      \* the Browser.close() calls made so far: where each one is
    idHist,          \* history: what the remote side has sent for each target id
    last,            \* history: the last step, its input, its error and what it emitted
    newPages,        \* the _createPageInContext calls made so far: where each one is
    jobQueue,        \* queue.ts `let jobQueue: RenderJobWithCleanup[]`
    processing,      \* the processJobIfPossible calls suspended in `await processJob(..)`
    watchers,        \* the file watchers installed so far: the file, the calls of unwatch
    liveEvents,      \* the 'render-job-failed' events sent to the clients
    added,           \* the addJob calls made so far
    lastJob          \* history: the last call of the render queue

vars == <<contexts, contextObjs, requests, targets, ignoredTargets, targetFilter,
          isPageTargetCallback, objs,
          microtasks, waits, evaluating, connection, browserDisconnected, closeCallback,
          closeCalls, idHist, last, newPages,
          jobQueue, processing, watchers, liveEvents, added, lastJob>>

\* what Browser.close() and Browser.disconnect() work on
closing == <<connection, browserDisconnected, closeCallback, closeCalls>>
\* the render queue of the preview server
queue == <<jobQueue, processing, watchers, liveEvents, added, lastJob>>

\* ---------------------------------------------------------- JavaScript Map
\* A Map is a sequence of [key, val] entries in insertion order.
MapHas(m, k) == \E i \in 1..Len(m) : m[i].key = k
MapGet(m, k) == m[CHOOSE i \in 1..Len(m) : m[i].key = k].val
MapSet(m, k, v) ==
    IF MapHas(m, k)
    THEN [i \in 1..Len(m) |-> IF m[i].key = k THEN [key |-> k, val |-> v] ELSE m[i]]
    ELSE Append(m, [key |-> k, val |-> v])
MapDelete(m, k) == SelectSeq(m, LAMBDA e : e.key # k)
MapValues(m) == [i \in 1..Len(m) |-> m[i].val]
MapKeys(m) == {m[i].key : i \in 1..Len(m)}

Range(s) == {s[i] : i \in 1..Len(s)}

\* ------------------------------------------------------------- the objects
DefaultContext == 0                \* Browser.#defaultContext; incognito contexts are 1, 2, ...

\* new Target(targetInfo, context, ...): `skipped` tells whether the attach is
\* skipped (initialization resolves to success at once) or begins (pending).
NewTarget(info, context, skipped) ==
    [id |-> info.targetId, type |-> info.type, url |-> info.url,
     context |-> context,
     init |-> IF skipped THEN "success" ELSE "pending",
     waiters |-> <<>>,           \* continuations awaiting _initializedPromise
     closed |-> 0,               \* calls of _closedCallback
     created |-> 0,              \* TargetCreated emitted at Browser scope
     destroyed |-> 0]            \* TargetDestroyed emitted at Browser scope

\* a flag that is set for every target
IsInitialized_Always(o) == TRUE
\* `target._isInitialized`
IsInitialized(o) == objs[o].init = "success"

\* Browser.targets()
BrowserTargets ==
    SelectSeq(MapValues(targets), LAMBDA o : IsInitialized(o))

\* Browser.browserContexts()
browserContexts == <<DefaultContext>> \o MapValues(contexts)

\* BrowserContext.targets()
ContextTargets(c) ==
    SelectSeq(BrowserTargets, LAMBDA o : objs[o].context = c)

\* `target.page()` for an initialized target: the one Page of the target (a
\* Page is identified with its target), or 0 for no page when the page
\* classification rejects the target
Page(o) ==
    IF objs[o].type \in isPageTargetCallback /\ IsInitialized(o) THEN o ELSE 0

\* a filter that lets every target type through
IsPageCapable_Any(o) == TRUE
\* the filter of BrowserContext.pages(): type 'page', or type 'other' accepted
\* by the page classification
IsPageCapable(o) ==
    \/ objs[o].type = "page"
    \/ (objs[o].type = "other" /\ "other" \in isPageTargetCallback)

\* BrowserContext.pages(): the filter and target.page() run at the call, so the
\* result is taken from the state at the call
ContextPages(c) ==
    SelectSeq([i \in 1..Len(SelectSeq(ContextTargets(c), IsPageCapable)) |->
                  Page(SelectSeq(ContextTargets(c), IsPageCapable)[i])],
              LAMBDA page : page # 0)

\* `contextPages.reduce((acc, x) => acc.concat(x), [])` over the first n
\* contexts of browserContexts()
RECURSIVE Flatten(_)
Flatten(n) ==
    IF n = 0 THEN <<>> ELSE Flatten(n - 1) \o ContextPages(browserContexts[n])

\* Browser.pages()
BrowserPages == Flatten(Len(browserContexts))

\* ------------------------------------------------------------ construction
\* `for (const contextId of contextIds) this.#contexts.set(contextId, new BrowserContext(..))`
RECURSIVE ConstructContexts(_, _)
ConstructContexts(contextIds, n) ==
    IF n = 0 THEN <<>>
    ELSE MapSet(ConstructContexts(contextIds, n - 1), contextIds[n], n)

InitialContextIds == {<<>>, <<"ctx1">>}
\* the callback #setIsPageTargetCallback installs when none is given
DefaultIsPageTargetCallback == {"page", "background_page", "webview"}
\* the callbacks given to the constructor: none, or one that accepts 'other' only
IsPageTargetCallbacks == {DefaultIsPageTargetCallback, {"other"}}
TargetFilters == {{}, {"other"}}   \* accept every target (the default); reject type 'other'

\* op: the handler or method that ran; id: the target id of a protocol event;
\* ctx: the browserContextId of a targetCreated event; error: what it threw;
\* emits: the Browser and BrowserContext events it emitted, in order
NoStep == [op |-> "new Browser", id |-> "", ctx |-> NoCtx, error |-> "", emits |-> <<>>]
Step(op, id, error, emits) ==
    [op |-> op, id |-> id, ctx |-> NoCtx, error |-> error, emits |-> emits]
\* a step in which `check` was called, and the user predicates it called
Checked(op, id, emits, calls) ==
    [op |-> op, id |-> id, ctx |-> NoCtx, error |-> "", emits |-> emits, calls |-> calls]
Created(info, error) ==
    [op |-> "targetCreated", id |-> info.targetId, ctx |-> info.browserContextId,
     error |-> error, emits |-> <<>>]

\* The history of the protocol events: the ids of the targetCreated events, of
\* those the filter accepted, of the targetDestroyed events, and of those that
\* came for an id accepted before. It is kept while no id came twice in events
\* of one kind (unique) and forgotten afterwards.
\* no call of the render queue yet
NoJobStep == [op |-> "", id |-> "", notified |-> 0]

NoHist == [unique |-> TRUE, created |-> {}, accepted |-> {}, destroyed |-> {},
           destroyedAccepted |-> {}]
NotUnique == [unique |-> FALSE, created |-> {}, accepted |-> {}, destroyed |-> {},
              destroyedAccepted |-> {}]

Init ==
    /\ \E contextIds \in InitialContextIds :
          /\ contextObjs = contextIds
          /\ contexts = ConstructContexts(contextIds, Len(contextIds))
    /\ requests = <<>>
    /\ targetFilter \in TargetFilters
    /\ isPageTargetCallback \in IsPageTargetCallbacks
    /\ targets = <<>>
    /\ ignoredTargets = {}
    /\ objs = <<>>
    /\ microtasks = <<>>
    /\ waits = <<>>
    /\ evaluating = {}
    /\ connection = [closed |-> FALSE, disconnected |-> 0]
    /\ browserDisconnected = 0
    /\ closeCallback = 0
    /\ closeCalls = <<>>
    /\ idHist = NoHist
    /\ last = NoStep
    /\ newPages = <<>>
    /\ jobQueue = <<>>
    /\ processing = {}
    /\ watchers = <<>>
    /\ liveEvents = {}
    /\ added = 0
    /\ lastJob = NoJobStep

\* ----------------------------------------------------------------- helpers
\* this.emit(ev, target); context.emit(ev, target)
Emits(ev, o, c) ==
    << [ev |-> ev, target |-> o, on |-> <<"browser">>],
       [ev |-> ev, target |-> o, on |-> <<"context", c>>] >>

\* a BrowserContext.waitForTarget that does not look at the context
InContext_Any(wait, t) == TRUE
\* `target.browserContext() === this` of BrowserContext.waitForTarget; a call
\* on the Browser (context <<>>) has no such test
InContext(wait, t) == wait.context = <<>> \/ t.context = wait.context[1]
\* the user predicate of a waitForTarget call, evaluated on a target
UserPredicate(wait, t) == t.url = wait.pred
\* the predicate Browser.waitForTarget is given by the call `wait`: the user
\* predicate, or `target.browserContext() === this && predicate(target)`
PredicateOf(wait, t) == InContext(wait, t) /\ UserPredicate(wait, t)
\* it returns a promise: the user predicate is called and returns one
Promised(wait, t) == InContext(wait, t) /\ wait.async
Predicate(w, t) == PredicateOf(waits[w], t)

\* `check(target)` up to its `await predicate(target)`: one call per listener
\* registered on the Browser for TargetCreated/TargetChanged, in registration order.
Task(kind, w, o, value) == [kind |-> kind, wait |-> w, target |-> o, value |-> value]
CheckCall(w, o, os) == Task("check", w, o, Predicate(w, os[o]))
\* the waitForTarget calls whose check is registered on the Browser for event ev
Listeners(ev) == SelectSeq([i \in 1..Len(waits) |-> i], LAMBDA w : ev \in waits[w].listening)
\* A predicate that returns a boolean: `await` makes the continuation of check
\* ready at once. A predicate that returns a promise: check stays suspended
\* until the promise settles. Suspended calls of one target with one outcome
\* for one waitForTarget call are not told apart.
SyncListeners(ev, o, os) == SelectSeq(Listeners(ev), LAMBDA w : ~Promised(waits[w], os[o]))
AsyncListeners(ev, o, os) == {w \in Range(Listeners(ev)) : Promised(waits[w], os[o])}
ListenerChecks(ev, o, os) ==
    [k \in 1..Len(SyncListeners(ev, o, os)) |-> CheckCall(SyncListeners(ev, o, os)[k], o, os)]
ListenerEvaluations(ev, o, os) == {CheckCall(w, o, os) : w \in AsyncListeners(ev, o, os)}
\* history: the calls of user predicates the listeners of ev make for target o
ListenerCalls(ev, o, os) ==
    {[wait |-> w, target |-> o] : w \in {v \in Range(Listeners(ev)) : InContext(waits[v], os[o])}}

\* Target._initializedCallback(value): resolves _initializedPromise if it is pending
InitializedCallback(t, value) ==
    IF t.init = "pending"
    THEN [t EXCEPT !.init = IF value THEN "success" ELSE "failed", !.waiters = <<>>]
    ELSE t
\* the continuations the resolution makes ready
Woken(t) == IF t.init = "pending" THEN t.waiters ELSE <<>>

\* Target._targetInfoChanged(targetInfo)
TargetInfoChanged(t, info) == [t EXCEPT !.type = info.type, !.url = info.url]

\* `await target._initializedPromise` in handler `kind` for target o of os:
\* <<the targets, the microtasks>> after the suspension.
Await(kind, o, os, mt) ==
    LET k == Task(kind, 0, o, FALSE) IN
    IF os[o].init = "pending"
    THEN <<[os EXCEPT ![o].waiters = Append(@, k)], mt>>
    ELSE <<os, Append(mt, k)>>

Bump(n) == IF n < 2 THEN n + 1 ELSE n

\* An error thrown by a protocol event handler is fatal (an uncaught exception
\* or an unhandled rejection): nothing is modelled after it. The handlers throw
\* before they change anything.
Crashed ==
    /\ last.error # ""
    /\ last.op \in {"targetCreated", "targetDestroyed", "targetInfoChanged"}

\* a task of the event loop may start
Idle == microtasks = <<>> /\ ~Crashed

\* -------------------------------------------------- protocol event handlers
\* a handler that resolves an unknown context id to no context
ResolveContext_Strict(info) ==
    IF info.browserContextId = NoCtx THEN <<DefaultContext>>
    ELSE IF MapHas(contexts, info.browserContextId)
    THEN <<MapGet(contexts, info.browserContextId)>>
    ELSE <<>>
\* a handler that gives every target the default context
ResolveContext_Default(info) == <<DefaultContext>>
\* the context the targetCreated handler resolves: <<context>>, or <<>> for undefined
ResolveContext(info) ==
    IF info.browserContextId # NoCtx /\ MapHas(contexts, info.browserContextId)
    THEN <<MapGet(contexts, info.browserContextId)>>
    ELSE <<DefaultContext>>

\* this.#targetFilterCallback(targetInfo)
TargetFilterCallback(info) == info.type \notin targetFilter

\* a handler without the assertion
AlreadyRegistered_Unchecked(id) == FALSE
\* `!this.#targets.has(event.targetInfo.targetId)` fails
AlreadyRegistered(id) == MapHas(targets, id)

CreatedHist(info, accept) ==
    IF ~idHist.unique \/ info.targetId \in idHist.created THEN NotUnique
    ELSE [idHist EXCEPT !.created = @ \cup {info.targetId},
                        !.accepted = IF accept THEN @ \cup {info.targetId} ELSE @]

\* Browser.#targetCreated(event)
targetCreated(info) ==
    LET id == info.targetId
        context == ResolveContext(info)
        o == Len(objs) + 1
    IN
    /\ idHist' = CreatedHist(info, TargetFilterCallback(info))
    /\ UNCHANGED <<contexts, contextObjs, requests, targetFilter, isPageTargetCallback, queue, newPages, closing, waits, evaluating>>
    /\ IF context = <<>>
       THEN /\ last' = Created(info, "Missing browser context")
            /\ UNCHANGED <<targets, ignoredTargets, objs, microtasks>>
       ELSE IF ~TargetFilterCallback(info)
       THEN /\ ignoredTargets' = ignoredTargets \cup {id}
            /\ last' = Created(info, "")
            /\ UNCHANGED <<targets, objs, microtasks>>
       ELSE IF AlreadyRegistered(id)
       THEN /\ last' = Created(info, "Target should not exist before targetCreated")
            /\ UNCHANGED <<targets, ignoredTargets, objs, microtasks>>
       ELSE /\ Len(objs) < MaxTargets
            /\ targets' = MapSet(targets, id, o)
            /\ \E skipped \in BOOLEAN :
                  LET a == Await("created", o,
                                 Append(objs, NewTarget(info, context[1], skipped)),
                                 microtasks)
                  IN objs' = a[1] /\ microtasks' = a[2]
            /\ last' = Created(info, "")
            /\ UNCHANGED ignoredTargets

DestroyedHist(id) ==
    IF ~idHist.unique \/ id \in idHist.destroyed THEN NotUnique
    ELSE [idHist EXCEPT !.destroyed = @ \cup {id},
                        !.destroyedAccepted = IF id \in idHist.accepted THEN @ \cup {id} ELSE @]

\* a handler that does not consult the ignored set
IsIgnored_Never(id) == FALSE
\* `this.#ignoredTargets.has(targetId)`
IsIgnored(id) == id \in ignoredTargets

\* a handler that returns silently instead of throwing
MissingTarget_Silent(where) == ""
\* `throw new Error('Missing target in ...')`
MissingTarget(where) == "Missing target in " \o where

\* a handler that leaves a pending initialization pending
ForceResolved_Skipped(t) == t
\* `target._initializedCallback(false)` of the targetDestroyed handler
ForceResolved(t) == InitializedCallback(t, FALSE)

\* a handler that forgets to delete the target
Unregistered_Keeps(id) == targets
\* `this.#targets.delete(event.targetId)`
Unregistered(id) == MapDelete(targets, id)

\* a handler that emits whatever the initialization resolved to
AwaitInitialized_Always(o) == TRUE
\* the value of `await target._initializedPromise`
AwaitInitialized(o) == IsInitialized(o)

\* a handler that does not compare the urls
UrlChanged_Always(previousURL, url) == TRUE
\* `previousURL !== target.url()`
UrlChanged(previousURL, url) == previousURL # url

\* Browser.#targetDestroyed(event)
targetDestroyed(id) ==
    /\ idHist' = DestroyedHist(id)
    /\ UNCHANGED <<contexts, contextObjs, requests, targetFilter, isPageTargetCallback, queue, newPages, closing, waits, evaluating>>
    /\ IF IsIgnored(id)
       THEN /\ last' = Step("targetDestroyed", id, "", <<>>)
            /\ UNCHANGED <<targets, ignoredTargets, objs, microtasks>>
       ELSE IF ~MapHas(targets, id)
       THEN /\ last' = Step("targetDestroyed", id, MissingTarget("_targetDestroyed"), <<>>)
            /\ UNCHANGED <<targets, ignoredTargets, objs, microtasks>>
       ELSE LET o == MapGet(targets, id)
                resolved == ForceResolved(objs[o])
                woken == IF resolved.init # objs[o].init THEN objs[o].waiters ELSE <<>>
                t == [resolved EXCEPT !.closed = Bump(@)]
                a == Await("destroyed", o, [objs EXCEPT ![o] = t], microtasks \o woken)
            IN /\ targets' = Unregistered(id)
               /\ objs' = a[1]
               /\ microtasks' = a[2]
               /\ last' = Step("targetDestroyed", id, "", <<>>)
               /\ UNCHANGED ignoredTargets

\* Browser.#targetInfoChanged(event)
targetInfoChanged(info) ==
    LET id == info.targetId IN
    /\ UNCHANGED <<contexts, contextObjs, requests, targetFilter, isPageTargetCallback, queue, newPages, closing, waits, idHist>>
    /\ IF IsIgnored(id)
       THEN /\ last' = Step("targetInfoChanged", id, "", <<>>)
            /\ UNCHANGED <<targets, ignoredTargets, objs, microtasks, evaluating>>
       ELSE IF ~MapHas(targets, id)
       THEN /\ last' = Step("targetInfoChanged", id, MissingTarget("targetInfoChanged"), <<>>)
            /\ UNCHANGED <<targets, ignoredTargets, objs, microtasks, evaluating>>
       ELSE LET o == MapGet(targets, id)
                previousURL == objs[o].url
                wasInitialized == IsInitialized(o)
                os == [objs EXCEPT ![o] = TargetInfoChanged(@, info)]
                changed == wasInitialized /\ UrlChanged(previousURL, os[o].url)
            IN /\ objs' = os
               /\ microtasks' = IF changed THEN microtasks \o ListenerChecks("TargetChanged", o, os)
                                ELSE microtasks
               /\ evaluating' = IF changed THEN evaluating \cup ListenerEvaluations("TargetChanged", o, os)
                                ELSE evaluating
               /\ last' = IF changed
                          THEN Checked("targetInfoChanged", id,
                                       Emits("TargetChanged", o, os[o].context),
                                       ListenerCalls("TargetChanged", o, os))
                          ELSE Step("targetInfoChanged", id, "", <<>>)
               /\ UNCHANGED <<targets, ignoredTargets>>

\* a continuation that registers the target (again)
ResumedRegistry_Sets(o) == MapSet(targets, objs[o].id, o)
\* the registry after the continuation of #targetCreated: the code after the
\* `await` does not touch it
ResumedRegistry(o) == targets

\* the continuation of #targetCreated after `await target._initializedPromise`
targetCreatedResume(o) ==
    /\ targets' = ResumedRegistry(o)
    /\ UNCHANGED <<contexts, contextObjs, requests, targetFilter, isPageTargetCallback, queue, newPages, closing,
                   ignoredTargets, waits, idHist>>
    /\ IF AwaitInitialized(o)
       THEN /\ objs' = [objs EXCEPT ![o].created = Bump(@)]
            /\ microtasks' = Tail(microtasks) \o ListenerChecks("TargetCreated", o, objs)
            /\ evaluating' = evaluating \cup ListenerEvaluations("TargetCreated", o, objs)
            /\ last' = Checked("targetCreated resumed", "",
                               Emits("TargetCreated", o, objs[o].context),
                               ListenerCalls("TargetCreated", o, objs))
       ELSE /\ microtasks' = Tail(microtasks)
            /\ last' = Step("targetCreated resumed", "", "", <<>>)
            /\ UNCHANGED <<objs, evaluating>>

\* the continuation of #targetDestroyed after `await target._initializedPromise`
targetDestroyedResume(o) ==
    /\ UNCHANGED <<contexts, contextObjs, requests, targetFilter, isPageTargetCallback, queue, newPages, closing, targets, ignoredTargets, waits, evaluating, idHist>>
    /\ microtasks' = Tail(microtasks)
    /\ IF AwaitInitialized(o)
       THEN /\ objs' = [objs EXCEPT ![o].destroyed = Bump(@)]
            /\ last' = Step("targetDestroyed resumed", "", "",
                            Emits("TargetDestroyed", o, objs[o].context))
       ELSE /\ last' = Step("targetDestroyed resumed", "", "", <<>>)
            /\ UNCHANGED objs

\* the attach of a Target completes: its initialization resolves
attachDone(o, success) ==
    /\ objs[o].init = "pending"
    /\ objs' = [objs EXCEPT ![o] = InitializedCallback(@, success)]
    /\ microtasks' = microtasks \o Woken(objs[o])
    /\ last' = Step("attach", "", "", <<>>)
    /\ UNCHANGED <<contexts, contextObjs, requests, targetFilter, isPageTargetCallback, queue, newPages, closing, targets, ignoredTargets, waits, evaluating, idHist>>

\* ------------------------------------------------------------ the contexts
Request(method, ctx) == [method |-> method, ctx |-> ctx]
Remove(s, r) == [i \in 1..(Len(s) - 1) |-> IF i < r THEN s[i] ELSE s[i + 1]]

\* Browser.createIncognitoBrowserContext() up to
\* `await this.#connection.send('Target.createBrowserContext', ..)`
createIncognitoBrowserContext ==
    /\ requests' = Append(requests, Request("Target.createBrowserContext", NoCtx))
    /\ last' = Step("createIncognitoBrowserContext", "", "", <<>>)
    /\ UNCHANGED <<contexts, contextObjs, targets, ignoredTargets, targetFilter, isPageTargetCallback, queue, newPages, closing, objs,
                   microtasks, waits, evaluating, idHist>>

\* a registration that puts the new context first
Registered_First(id, context) == <<[key |-> id, val |-> context]>> \o contexts
\* `this.#contexts.set(browserContextId, context)`
Registered(id, context) == MapSet(contexts, id, context)

\* its continuation: the request r is answered with browserContextId = id, or
\* with an error; the new BrowserContext object is the value returned
createIncognitoBrowserContextResume(r, id, ok) ==
    /\ requests' = Remove(requests, r)
    /\ IF ok
       THEN /\ contextObjs' = Append(contextObjs, id)
            /\ contexts' = Registered(id, Len(contextObjs) + 1)
            /\ last' = Step("createIncognitoBrowserContext resumed", "", "", <<>>)
       ELSE /\ last' = Step("createIncognitoBrowserContext resumed", "", "ProtocolError", <<>>)
            /\ UNCHANGED <<contexts, contextObjs>>
    /\ UNCHANGED <<targets, ignoredTargets, targetFilter, isPageTargetCallback, queue, newPages, closing, objs, microtasks, waits, evaluating, idHist>>

\* Browser._disposeContext(contextId) up to
\* `await this.#connection.send('Target.disposeBrowserContext', ..)`
DisposeContext(contextId) ==
    IF contextId = NoCtx THEN requests
    ELSE Append(requests, Request("Target.disposeBrowserContext", contextId))

\* a delete that empties the registry
Deleted_All(contextId) == <<>>
\* `this.#contexts.delete(contextId)`
Deleted(contextId) == MapDelete(contexts, contextId)

\* its continuation: the request r is answered, with success or with an error
DisposeContextResume(r, ok) ==
    /\ requests' = Remove(requests, r)
    /\ IF ok
       THEN /\ contexts' = Deleted(requests[r].ctx)
            /\ last' = Step("close resumed", "", "", <<>>)
       ELSE /\ last' = Step("close resumed", "", "ProtocolError", <<>>)
            /\ UNCHANGED contexts
    /\ UNCHANGED <<contextObjs, targets, ignoredTargets, targetFilter, isPageTargetCallback, queue, newPages, closing, objs, microtasks,
                   waits, evaluating, idHist>>

\* BrowserContext.#id of context object c: none for the default context
ContextId(c) == IF c = DefaultContext THEN NoCtx ELSE contextObjs[c]

\* `assert(value, message)`: the error thrown for a value that is not truthy,
\* "" (none) otherwise
assertion(value, message) == IF value = "" THEN message ELSE ""

\* BrowserContext.close() on context object c, up to its suspension
close(c) ==
    /\ IF assertion(ContextId(c), "Non-incognito profiles cannot be closed!") # ""
       THEN /\ last' = Step("close", "",
                            assertion(ContextId(c), "Non-incognito profiles cannot be closed!"), <<>>)
            /\ UNCHANGED requests
       ELSE /\ requests' = DisposeContext(ContextId(c))
            /\ last' = Step("close", "", "", <<>>)
    /\ UNCHANGED <<contexts, contextObjs, targets, ignoredTargets, targetFilter, isPageTargetCallback, queue, newPages, closing, objs,
                   microtasks, waits, evaluating, idHist>>

\* ---------------------------------------------------------------- newPage
\* BrowserContext.newPage() / Browser._createPageInContext(contextId) up to
\* `await this.#connection.send('Target.createTarget', ..)`. The remote side
\* creates the target when it gets the request: targetId is the id it gives
\* it, which the call learns from the response.
createPageInContext(c, targetId) ==
    /\ newPages' = Append(newPages, [ctx |-> ContextId(c), targetId |-> targetId,
                                     status |-> "sent", error |-> "", page |-> 0])
    /\ last' = Step("newPage", "", "", <<>>)
    /\ UNCHANGED <<contexts, contextObjs, requests, targets, ignoredTargets, targetFilter,
                   isPageTargetCallback, queue, closing, objs, microtasks, waits, evaluating,
                   idHist>>

\* a call that has ended with an error
Thrown(n, message) == [newPages EXCEPT ![n].status = "failed", ![n].error = message]

\* the response to call n: `this.#targets.get(targetId)`, then
\* `await target._initializedPromise`
createPageInContextResponse(n, ok) ==
    LET id == newPages[n].targetId
        k == Task("newPage", n, MapGet(targets, id), FALSE)
    IN
    /\ newPages[n].status = "sent"
    /\ last' = Step("newPage response", id, "", <<>>)
    /\ IF ~ok
       THEN /\ newPages' = Thrown(n, "ProtocolError")
            /\ UNCHANGED <<objs, microtasks>>
       ELSE IF ~MapHas(targets, id)
       THEN /\ newPages' = Thrown(n, "Missing target for page")
            /\ UNCHANGED <<objs, microtasks>>
       ELSE /\ newPages' = [newPages EXCEPT ![n].status = "initializing"]
            /\ IF objs[k.target].init = "pending"
               THEN /\ objs' = [objs EXCEPT ![k.target].waiters = Append(@, k)]
                    /\ UNCHANGED microtasks
               ELSE /\ microtasks' = Append(microtasks, k)
                    /\ UNCHANGED objs
    /\ UNCHANGED <<contexts, contextObjs, requests, targets, ignoredTargets, targetFilter,
                   isPageTargetCallback, queue, closing, waits, evaluating, idHist>>

\* its continuation after `await target._initializedPromise`, with
\* `await target.page()`, which gives the page of an initialized page target
\* and nothing for another target
createPageInContextResume(n, o) ==
    /\ microtasks' = Tail(microtasks)
    /\ last' = Step("newPage resumed", "", "", <<>>)
    /\ newPages' =
          IF ~AwaitInitialized(o) THEN Thrown(n, "Failed to create target for page")
          ELSE IF Page(o) = 0 THEN Thrown(n, "Failed to create a page for context")
          ELSE [newPages EXCEPT ![n].status = "returned", ![n].page = Page(o)]
    /\ UNCHANGED <<contexts, contextObjs, requests, targets, ignoredTargets, targetFilter,
                   isPageTargetCallback, queue, closing, objs, waits, evaluating, idHist>>

\* ------------------------------------------------------------------ pages
\* a call of pages() on context object c (on the Browser: c = <<>>) and the
\* array it resolves to
PagesStep(c, result) ==
    [op |-> "pages", id |-> "", ctx |-> NoCtx, error |-> "", emits |-> <<>>,
     context |-> c, pages |-> result]

\* BrowserContext.pages() on context object c
contextPages(c) ==
    /\ last' = PagesStep(<<c>>, ContextPages(c))
    /\ UNCHANGED <<contexts, contextObjs, requests, targets, ignoredTargets, targetFilter, isPageTargetCallback, queue, newPages, closing, objs, microtasks, waits, evaluating, idHist>>

\* Browser.pages()
browserPages ==
    /\ last' = PagesStep(<<>>, BrowserPages)
    /\ UNCHANGED <<contexts, contextObjs, requests, targets, ignoredTargets, targetFilter, isPageTargetCallback, queue, newPages, closing, objs, microtasks, waits, evaluating, idHist>>

\* ------------------------------------------------------ close, disconnect
\* Connection.dispose(): marks the connection closed and emits Disconnected,
\* the first time only
dispose(conn) ==
    IF conn.closed THEN conn
    ELSE [closed |-> TRUE, disconnected |-> conn.disconnected + 1]

\* the transport closes: the Connection marks itself closed and emits
\* Disconnected, unless it is closed already
onClose(conn) == dispose(conn)

\* a Browser that does not listen to the Connection
ReEmitted_Never(conn, after) == browserDisconnected
\* `this.#connection.on(Disconnected, () => this.emit(Disconnected))`: the
\* Browser's count once the Connection went from conn to after
ReEmitted(conn, after) == browserDisconnected + (after.disconnected - conn.disconnected)

\* a disconnect that leaves the connection alone
Disconnect_Skipped(conn) == conn
\* Browser.disconnect(): `this.#connection.dispose()`
Disconnect(conn) == dispose(conn)

\* Browser.isConnected()
isConnected == ~connection.closed

\* Browser.close() up to `await this.#closeCallback.call(null)`
browserClose ==
    /\ closeCallback' = closeCallback + 1
    /\ closeCalls' = Append(closeCalls, "callback")
    /\ last' = Step("Browser.close", "", "", <<>>)
    /\ UNCHANGED <<contexts, contextObjs, requests, targets, ignoredTargets, targetFilter,
                   isPageTargetCallback, queue, newPages, objs, microtasks, waits, evaluating, connection,
                   browserDisconnected, idHist>>

\* its continuation: the promise of the callback of call k is fulfilled (ok),
\* then `this.disconnect()`; or it is rejected, and so is the close() call
browserCloseResume(k, ok) ==
    /\ closeCalls[k] = "callback"
    /\ IF ok
       THEN /\ connection' = Disconnect(connection)
            /\ browserDisconnected' = ReEmitted(connection, Disconnect(connection))
            /\ closeCalls' = [closeCalls EXCEPT ![k] = "returned"]
            /\ last' = Step("Browser.close resumed", "", "", <<>>)
       ELSE /\ closeCalls' = [closeCalls EXCEPT ![k] = "failed"]
            /\ last' = Step("Browser.close resumed", "", "CloseCallbackError", <<>>)
            /\ UNCHANGED <<connection, browserDisconnected>>
    /\ UNCHANGED <<contexts, contextObjs, requests, targets, ignoredTargets, targetFilter,
                   isPageTargetCallback, queue, newPages, objs, microtasks, waits, evaluating, closeCallback,
                   idHist>>

\* Browser.disconnect()
browserDisconnect ==
    /\ connection' = Disconnect(connection)
    /\ browserDisconnected' = ReEmitted(connection, Disconnect(connection))
    /\ last' = Step("Browser.disconnect", "", "", <<>>)
    /\ UNCHANGED <<contexts, contextObjs, requests, targets, ignoredTargets, targetFilter,
                   isPageTargetCallback, queue, newPages, objs, microtasks, waits, evaluating, closeCallback,
                   closeCalls, idHist>>

\* the transport's close signal reaches the Connection
transportClosed ==
    /\ connection' = onClose(connection)
    /\ browserDisconnected' = ReEmitted(connection, onClose(connection))
    /\ last' = Step("transport closed", "", "", <<>>)
    /\ UNCHANGED <<contexts, contextObjs, requests, targets, ignoredTargets, targetFilter,
                   isPageTargetCallback, queue, newPages, objs, microtasks, waits, evaluating, closeCallback,
                   closeCalls, idHist>>

\* ------------------------------------------------------------ permissions
WEB_PERMISSION_TO_PROTOCOL_PERMISSION ==
    << [key |-> "geolocation", val |-> "geolocation"],
       [key |-> "midi", val |-> "midi"],
       [key |-> "notifications", val |-> "notifications"],
       [key |-> "camera", val |-> "videoCapture"],
       [key |-> "microphone", val |-> "audioCapture"],
       [key |-> "background-sync", val |-> "backgroundSync"],
       [key |-> "ambient-light-sensor", val |-> "sensors"],
       [key |-> "accelerometer", val |-> "sensors"],
       [key |-> "gyroscope", val |-> "sensors"],
       [key |-> "magnetometer", val |-> "sensors"],
       [key |-> "accessibility-events", val |-> "accessibilityEvents"],
       [key |-> "clipboard-read", val |-> "clipboardReadWrite"],
       [key |-> "clipboard-write", val |-> "clipboardReadWrite"],
       [key |-> "payment-handler", val |-> "paymentHandler"],
       [key |-> "persistent-storage", val |-> "durableStorage"],
       [key |-> "idle-detection", val |-> "idleDetection"],
       [key |-> "midi-sysex", val |-> "midiSysex"] >>

\* the names a caller passes: one the table maps to itself, one it renames, two
\* it maps to the same token, 'push' (commented out in the table) and a name
\* that is no permission
PermissionNames == {"geolocation", "camera", "accelerometer", "gyroscope", "push", "bogus"}
PermissionLists ==
    UNION {[1..n -> PermissionNames] : n \in 0..MaxPermissions}
Origins == {"https://a.com", "https://b.com"}

\* `WEB_PERMISSION_TO_PROTOCOL_PERMISSION.get(permission)`: "" for undefined
ProtocolPermission(permission) ==
    IF MapHas(WEB_PERMISSION_TO_PROTOCOL_PERMISSION, permission)
    THEN MapGet(WEB_PERMISSION_TO_PROTOCOL_PERMISSION, permission)
    ELSE ""
\* a map callback that never throws
Unmapped_Kept(permissions) == <<>>
\* the names for which the map callback throws, in input order
Unmapped(permissions) == SelectSeq(permissions, LAMBDA name : ProtocolPermission(name) = "")

\* BrowserContext.overridePermissions(origin, permissions) on context object c,
\* up to `await this.#connection.send('Browser.grantPermissions', ..)`
overridePermissions(c, origin, permissions) ==
    /\ IF Unmapped(permissions) # <<>>
       THEN /\ last' = Step("overridePermissions", "",
                            "Unknown permission: " \o Unmapped(permissions)[1], <<>>)
            /\ UNCHANGED requests
       ELSE /\ requests' = Append(requests,
                  [method |-> "Browser.grantPermissions", ctx |-> ContextId(c), origin |-> origin,
                   permissions |-> [i \in 1..Len(permissions) |->
                                       ProtocolPermission(permissions[i])]])
            /\ last' = Step("overridePermissions", "", "", <<>>)
    /\ UNCHANGED <<contexts, contextObjs, targets, ignoredTargets, targetFilter, isPageTargetCallback, queue, newPages, closing, objs,
                   microtasks, waits, evaluating, idHist>>

\* its continuation: the request r is answered, with success or with an error
overridePermissionsResume(r, ok) ==
    /\ requests' = Remove(requests, r)
    /\ last' = Step("overridePermissions resumed", "", IF ok THEN "" ELSE "ProtocolError", <<>>)
    /\ UNCHANGED <<contexts, contextObjs, targets, ignoredTargets, targetFilter, isPageTargetCallback, queue, newPages, closing, objs,
                   microtasks, waits, evaluating, idHist>>

\* ----------------------------------------------------------- waitForTarget
\* `const {timeout = 30000} = options`
TimeoutOf(option) == IF option = <<>> THEN DefaultTimeout ELSE option[1]

\* `this.targets().forEach(check)`, skipped when `!timeout`
InitialChecks(w, timeout) ==
    IF timeout = 0 THEN <<>>
    ELSE [k \in 1..Len(BrowserTargets) |->
             Task("check", w, BrowserTargets[k], PredicateOf(waits'[w], objs[BrowserTargets[k]]))]
\* those whose predicate returns a promise, and the others
InitialEvaluations(w, timeout) ==
    {k \in Range(InitialChecks(w, timeout)) : Promised(waits'[w], objs[k.target])}
InitialReady(w, timeout) ==
    SelectSeq(InitialChecks(w, timeout), LAMBDA k : ~Promised(waits'[w], objs[k.target]))
\* history: the calls of the user predicate they make
InitialCalls(w, timeout) ==
    {[wait |-> w, target |-> k.target] :
        k \in {j \in Range(InitialChecks(w, timeout)) : InContext(waits'[w], objs[j.target])}}

\* `this.on(TargetCreated, check); this.on(TargetChanged, check)`
On == {"TargetCreated", "TargetChanged"}
\* a finally block that leaves the listeners registered
Off_Leaks(wait) == wait
\* `this.off(TargetCreated, check); this.off(TargetChanged, check)`
Off(wait) == [wait EXCEPT !.listening = {}]

\* Browser.waitForTarget(predicate, options) up to its first suspension, called
\* by the user (context <<>>) or by BrowserContext.waitForTarget of context
\* object c (context <<c>>); the user predicate compares the url with pred, and
\* returns a promise if async
browserWaitForTarget(context, pred, async, option) ==
    LET w == Len(waits) + 1
        timeout == TimeoutOf(option)
    IN
    /\ Len(waits) < MaxWaits
    /\ waits' = Append(waits,
          [context |-> context, pred |-> pred, async |-> async, timeout |-> timeout,
           listening |-> On, isResolved |-> FALSE, result |-> 0, status |-> "pending",
           satisfiedAtCall |-> {o \in Range(BrowserTargets) :
                                   PredicateOf([context |-> context, pred |-> pred], objs[o])}])
    /\ evaluating' = evaluating \cup InitialEvaluations(w, timeout)
    /\ microtasks' = microtasks \o InitialReady(w, timeout)
    /\ last' = Checked("waitForTarget", "", <<>>, InitialCalls(w, timeout))
    /\ UNCHANGED <<contexts, contextObjs, requests, targets, ignoredTargets, targetFilter,
                   isPageTargetCallback, queue, newPages, closing, objs, idHist>>

\* Browser.waitForTarget(predicate, options), called by the user
waitForTarget(pred, async, option) == browserWaitForTarget(<<>>, pred, async, option)

\* BrowserContext.waitForTarget(predicate, options) on context object c
contextWaitForTarget(c, pred, async, option) == browserWaitForTarget(<<c>>, pred, async, option)

\* the promise an asynchronous predicate returned settles: the continuation of
\* the `check` call k is ready
predicateSettled(k) ==
    /\ evaluating' = evaluating \ {k}
    /\ microtasks' = Append(microtasks, k)
    /\ last' = Step("predicate settled", "", "", <<>>)
    /\ UNCHANGED <<contexts, contextObjs, requests, targets, ignoredTargets, targetFilter, isPageTargetCallback, queue, newPages, closing, objs,
                   waits, idHist>>

\* a check that does not look at isResolved
AlreadyResolved_Ignored(w) == FALSE
\* `isResolved` of the waitForTarget call
AlreadyResolved(w) == waits[w].isResolved

\* the continuation of `check` after `await predicate(target)`
checkResume(w, o, value) ==
    /\ IF value /\ ~AlreadyResolved(w)
       THEN /\ waits' = [waits EXCEPT ![w].isResolved = TRUE, ![w].result = o]
            /\ microtasks' = IF waits[w].status = "pending"
                             THEN Append(Tail(microtasks), Task("return", w, o, TRUE))
                             ELSE Tail(microtasks)
       ELSE /\ microtasks' = Tail(microtasks)
            /\ UNCHANGED waits
    /\ last' = Step("check resumed", "", "", <<>>)
    /\ UNCHANGED <<contexts, contextObjs, requests, targets, ignoredTargets, targetFilter, isPageTargetCallback, queue, newPages, closing, objs,
                   evaluating, idHist>>

\* waitForTarget after `await targetPromise`: the finally block, then the return
waitForTargetReturn(w) ==
    /\ microtasks' = Tail(microtasks)
    /\ waits' = [waits EXCEPT ![w] = [Off(@) EXCEPT !.status = "resolved"]]
    /\ last' = Step("waitForTarget returned", "", "", <<>>)
    /\ UNCHANGED <<contexts, contextObjs, requests, targets, ignoredTargets, targetFilter, isPageTargetCallback, queue, newPages, closing, objs,
                   evaluating, idHist>>

\* a waitForTarget that arms a timer whatever the timeout
TimerArmed_Always(timeout) == TRUE
\* `if (!timeout) return await targetPromise;`: waitWithTimeout is not reached
TimerArmed(timeout) == timeout # 0

\* a waitWithTimeout that leaves its timer running when the promise has won
TimerCleared_Never(w) == FALSE
\* waitWithTimeout clears its timer once the promise it races has settled
TimerCleared(w) == waits[w].status # "pending"

\* the timer of waitWithTimeout fires: TimeoutError, after the finally block
waitForTargetTimeout(w) ==
    /\ Idle
    /\ TimerArmed(waits[w].timeout)
    /\ ~TimerCleared(w)
    /\ waits' = [waits EXCEPT ![w] = [Off(@) EXCEPT !.status = "timeout"]]
    /\ last' = Step("waitForTarget timed out", "", "TimeoutError", <<>>)
    /\ UNCHANGED <<contexts, contextObjs, requests, targets, ignoredTargets, targetFilter, isPageTargetCallback, queue, newPages, closing, objs,
                   microtasks, evaluating, idHist>>

\* --------------------------------------------------------------- the steps
\* the event loop runs the oldest ready continuation
RunMicrotask ==
    /\ microtasks # <<>>
    /\ LET k == Head(microtasks) IN
       CASE k.kind = "created" -> targetCreatedResume(k.target)
         [] k.kind = "destroyed" -> targetDestroyedResume(k.target)
         [] k.kind = "check" -> checkResume(k.wait, k.target, k.value)
         [] k.kind = "return" -> waitForTargetReturn(k.wait)
         [] k.kind = "newPage" -> createPageInContextResume(k.wait, k.target)

\* the target ids the remote side has mentioned, and the ids an event may carry:
\* those, and the first id it has not mentioned yet
SeenIds == {objs[o].id : o \in 1..Len(objs)} \cup ignoredTargets
EventIds ==
    {TargetIdSeq[i] : i \in {j \in 1..Len(TargetIdSeq) :
                                \A k \in 1..(j - 1) : TargetIdSeq[k] \in SeenIds}}

\* the browserContextId an event may carry: none, the id of a context that was
\* constructed, or the first id that was not (an unknown context)
EventCtxIds ==
    {NoCtx} \cup {CtxIdSeq[i] : i \in {j \in 1..Len(CtxIdSeq) : j <= Len(contextObjs) + 1}}

TargetCreatedEvent ==
    /\ Idle
    /\ \E id \in EventIds : \E info \in TargetInfos(id, EventCtxIds) : targetCreated(info)
TargetDestroyedEvent ==
    /\ Idle
    /\ \E id \in EventIds : targetDestroyed(id)
TargetInfoChangedEvent ==
    /\ Idle
    /\ \E id \in EventIds : \E info \in ChangedInfos(id) : targetInfoChanged(info)
AttachDone ==
    /\ Idle
    /\ \E o \in 1..Len(objs), success \in BOOLEAN : attachDone(o, success)
PendingCreates ==
    Len(SelectSeq(requests, LAMBDA r : r.method = "Target.createBrowserContext"))
CreateContext ==
    /\ Idle
    /\ Len(requests) < MaxRequests
    /\ Len(contextObjs) + PendingCreates < MaxContexts
    /\ createIncognitoBrowserContext
CloseContext ==
    /\ Idle
    /\ Len(requests) < MaxRequests
    /\ \E c \in 0..Len(contextObjs) : close(c)
\* the remote side answers a request; it gives a new context the first id it
\* has not used
Response ==
    /\ Idle
    /\ \E r \in 1..Len(requests), ok \in BOOLEAN :
          CASE requests[r].method = "Target.createBrowserContext" ->
                  createIncognitoBrowserContextResume(r, CtxIdSeq[Len(contextObjs) + 1], ok)
            [] requests[r].method = "Target.disposeBrowserContext" ->
                  DisposeContextResume(r, ok)
            [] requests[r].method = "Browser.grantPermissions" ->
                  overridePermissionsResume(r, ok)
OverridePermissions ==
    /\ Idle
    /\ Len(requests) < MaxRequests
    /\ \E c \in 0..Len(contextObjs), origin \in Origins, permissions \in PermissionLists :
          overridePermissions(c, origin, permissions)
\* a single waitForTarget call, of any predicate
WaitForTarget ==
    /\ Idle
    /\ waits = <<>>
    /\ \E pred \in Urls, async \in BOOLEAN, option \in TimeoutOptions :
          waitForTarget(pred, async, option)
\* one of several waitForTarget calls, of a predicate that returns a boolean
WaitForTargetSync ==
    /\ Idle
    /\ \E pred \in Urls, option \in TimeoutOptions : waitForTarget(pred, FALSE, option)
Timeout == \E w \in 1..Len(waits) : waitForTargetTimeout(w)
PredicateSettled ==
    /\ Idle
    /\ \E k \in evaluating : predicateSettled(k)

\* the remote side sends a page target of the default context
PageInfos(id) == [targetId : {id}, type : {"page"}, url : Urls, browserContextId : {NoCtx}]
PageCreatedEvent ==
    /\ Idle
    /\ \E id \in EventIds : \E info \in PageInfos(id) : targetCreated(info)
PageInfoChangedEvent ==
    /\ Idle
    /\ \E id \in EventIds : \E info \in PageInfos(id) : targetInfoChanged(info)

\* ------------------------------------------------------ the specifications
\* The target lifecycle: every protocol event, for any target filter, over the
\* contexts the Browser was constructed with.
Next ==
    \/ TargetCreatedEvent
    \/ TargetDestroyedEvent
    \/ TargetInfoChangedEvent
    \/ AttachDone
    \/ RunMicrotask

\* The target lifecycle, under the default page classification (the handlers
\* do not consult it).
InitTargets ==
    /\ Init
    /\ isPageTargetCallback = DefaultIsPageTargetCallback

Spec == InitTargets /\ [][Next]_vars

\* One waitForTarget call, over page targets of the default context and the
\* default target filter.
InitWait ==
    /\ InitTargets
    /\ contexts = <<>>
    /\ targetFilter = {}

NextWait ==
    \/ PageCreatedEvent
    \/ TargetDestroyedEvent
    \/ PageInfoChangedEvent
    \/ AttachDone
    \/ WaitForTarget
    \/ PredicateSettled
    \/ Timeout
    \/ RunMicrotask

SpecWait == InitWait /\ [][NextWait]_vars

\* The same, where a ready continuation is eventually run. Whether the promise
\* of an asynchronous predicate ever settles is up to the predicate.
SpecWaitLive == SpecWait /\ WF_vars(RunMicrotask)

\* Several waitForTarget calls at a time, with their timers.
NextWaits ==
    \/ PageCreatedEvent
    \/ TargetDestroyedEvent
    \/ PageInfoChangedEvent
    \/ AttachDone
    \/ WaitForTargetSync
    \/ Timeout
    \/ RunMicrotask

SpecWaits == InitWait /\ [][NextWaits]_vars

\* Several waitForTarget calls and their timers, with context requests in flight.
NextTimeout ==
    \/ PageCreatedEvent
    \/ PageInfoChangedEvent
    \/ AttachDone
    \/ WaitForTargetSync
    \/ Timeout
    \/ CreateContext
    \/ Response
    \/ RunMicrotask

SpecTimeout == InitWait /\ [][NextTimeout]_vars

\* The context registry: contexts are created and closed while page targets of
\* any context come, under the default target filter.
InitContexts ==
    /\ InitTargets
    /\ targetFilter = {}

ContextPageInfos(id) ==
    [targetId : {id}, type : {"page"}, url : {"about:blank"}, browserContextId : EventCtxIds]
ContextPageCreatedEvent ==
    /\ Idle
    /\ \E id \in EventIds : \E info \in ContextPageInfos(id) : targetCreated(info)

NextContexts ==
    \/ ContextPageCreatedEvent
    \/ CreateContext
    \/ CloseContext
    \/ Response
    \/ RunMicrotask

SpecContexts == InitContexts /\ [][NextContexts]_vars

\* pages(): targets of three types come in contexts that are created and
\* closed, in a browser made with no incognito context, under each page
\* classification and the default target filter.
InitPages ==
    /\ Init
    /\ contexts = <<>>
    /\ targetFilter = {}

PageTypes == {"page", "other", "background_page"}
PagesInfos(id, ctxIds) ==
    [targetId : {id}, type : PageTypes, url : {"about:blank"}, browserContextId : ctxIds]
PagesCreatedEvent ==
    /\ Idle
    /\ \E id \in EventIds : \E info \in PagesInfos(id, EventCtxIds) : targetCreated(info)
BrowserContextPagesCall ==
    /\ Idle
    /\ \E c \in 0..Len(contextObjs) : contextPages(c)
BrowserPagesCall ==
    /\ Idle
    /\ browserPages

NextPages ==
    \/ PagesCreatedEvent
    \/ AttachDone
    \/ CreateContext
    \/ CloseContext
    \/ Response
    \/ BrowserContextPagesCall
    \/ BrowserPagesCall
    \/ RunMicrotask

SpecPages == InitPages /\ [][NextPages]_vars

\* One BrowserContext.waitForTarget call, with the default timeout, over page
\* targets of every context and the default target filter.
ContextWaitInfos(id, ctxIds) ==
    [targetId : {id}, type : {"page"}, url : Urls, browserContextId : ctxIds]
ContextWaitCreatedEvent ==
    /\ Idle
    /\ \E id \in EventIds : \E info \in ContextWaitInfos(id, EventCtxIds) : targetCreated(info)
ContextWaitInfoChangedEvent ==
    /\ Idle
    /\ \E id \in EventIds : \E info \in ContextWaitInfos(id, {NoCtx}) : targetInfoChanged(info)
ContextWaitForTarget ==
    /\ Idle
    /\ waits = <<>>
    /\ \E c \in 0..Len(contextObjs), pred \in Urls, async \in BOOLEAN :
          contextWaitForTarget(c, pred, async, <<>>)

NextContextWait ==
    \/ ContextWaitCreatedEvent
    \/ ContextWaitInfoChangedEvent
    \/ AttachDone
    \/ ContextWaitForTarget
    \/ PredicateSettled
    \/ RunMicrotask

SpecContextWait == InitContexts /\ [][NextContextWait]_vars

\* close() and disconnect(), while page targets come and attach. A closed
\* connection delivers no event, and an attach that is pending on it fails.
ConnectedPageCreatedEvent ==
    /\ isConnected
    /\ PageCreatedEvent
ConnectionAttachDone ==
    /\ Idle
    /\ \E o \in 1..Len(objs), success \in BOOLEAN :
          /\ ~isConnected => ~success
          /\ attachDone(o, success)
BrowserClose ==
    /\ Idle
    /\ Len(closeCalls) < MaxCloses
    /\ browserClose
CloseCallbackSettled ==
    /\ Idle
    /\ \E k \in 1..Len(closeCalls), ok \in BOOLEAN : browserCloseResume(k, ok)
BrowserDisconnect ==
    /\ Idle
    /\ browserDisconnect

NextClose ==
    \/ ConnectedPageCreatedEvent
    \/ ConnectionAttachDone
    \/ BrowserClose
    \/ CloseCallbackSettled
    \/ BrowserDisconnect
    \/ RunMicrotask

SpecClose == InitWait /\ [][NextClose]_vars

\* The same, with a transport that may close by itself at any time (and, for
\* the Connection, more than once).
TransportClosed ==
    /\ Idle
    /\ transportClosed

NextDisconnect ==
    \/ NextClose
    \/ TransportClosed

SpecDisconnect == InitWait /\ [][NextDisconnect]_vars

\* Permission grants, on the default context and on incognito contexts.
NextPermissions ==
    \/ CreateContext
    \/ OverridePermissions
    \/ Response

SpecPermissions == InitContexts /\ [][NextPermissions]_vars

\* ===================================================================== C1
\* C1: while the target ids of the targetCreated events are unique (and so are
\* those of the targetDestroyed events), the number of entries of the target
\* registry equals the number of targetCreated events the target filter
\* accepted minus the number of targetDestroyed events for accepted ids.
C1_RegistrySize ==
    idHist.unique =>
        Len(targets) = Cardinality(idHist.accepted) - Cardinality(idHist.destroyedAccepted)

\* two targets were accepted, one of them was destroyed
C1_Witness ==
    /\ idHist.unique
    /\ Cardinality(idHist.accepted) = 2
    /\ Cardinality(idHist.destroyedAccepted) = 1
    /\ Len(targets) = 1

\* ===================================================================== C2
RejectedCreation ==
    \E info \in TargetInfos(last'.id, {last'.ctx}) :
        ~TargetFilterCallback(info) /\ targetCreated(info)

\* C2: a targetCreated event the target filter rejects records the id as
\* ignored and registers nothing; while ids are unique an ignored id is not in
\* the registry (so not in targets()); a targetDestroyed or targetInfoChanged
\* event for an ignored id raises no error, emits nothing and leaves the
\* registry, the ignored set and the context registry unchanged.
C2_IgnoredTargetIsDropped ==
    [][ /\ (last'.op = "targetCreated" /\ RejectedCreation) =>
              /\ last'.id \in ignoredTargets'
              /\ last'.error = "" /\ last'.emits = <<>>
              /\ UNCHANGED <<targets, objs, microtasks, contexts>>
        /\ (idHist'.unique =>
              \A id \in ignoredTargets' :
                 /\ ~MapHas(targets', id)
                 /\ \A k \in 1..Len(BrowserTargets') : objs'[BrowserTargets'[k]].id # id)
        /\ (last'.op \in {"targetDestroyed", "targetInfoChanged"}
              /\ last'.id \in ignoredTargets) =>
              /\ last'.error = "" /\ last'.emits = <<>>
              /\ UNCHANGED <<targets, ignoredTargets, contexts, objs, microtasks>>
      ]_vars

\* an event came for an ignored id while another target is registered
C2_Witness ==
    /\ last.op \in {"targetDestroyed", "targetInfoChanged"}
    /\ last.id \in ignoredTargets
    /\ last.error = ""
    /\ Len(targets) = 1

\* ===================================================================== C3
\* the browserContextId is given and is no key of the context registry
UnknownContext(ctx) == ctx # NoCtx /\ ~MapHas(contexts, ctx)

AcceptedCreation ==
    \E info \in TargetInfos(last'.id, {last'.ctx}) :
        TargetFilterCallback(info) /\ targetCreated(info)

\* C3 as claimed: a targetCreated event whose browserContextId is non-empty and
\* is no key of the context registry raises an error and registers no Target.
C3_UnknownContextRaises ==
    [][ (last'.op = "targetCreated" /\ UnknownContext(last'.ctx)) =>
            (last'.error = "Missing browser context" /\ UNCHANGED targets) ]_vars

\* C3 as amended: such an event never raises 'Missing browser context'; the
\* handler falls back to the default context, and a target that passes the
\* filter and whose id is not registered is registered with the default
\* context as its browserContext().
C3_UnknownContextFallsBack ==
    [][ (last'.op = "targetCreated" /\ UnknownContext(last'.ctx)) =>
            /\ last'.error # "Missing browser context"
            /\ (AcceptedCreation /\ ~MapHas(targets, last'.id)) =>
                  /\ last'.error = ""
                  /\ MapHas(targets', last'.id)
                  /\ MapGet(targets', last'.id) = Len(objs) + 1
                  /\ objs'[Len(objs) + 1].context = DefaultContext ]_vars

\* a target of an unknown context was registered, in the default context
C3_Witness ==
    /\ last.op = "targetCreated"
    /\ last.error = ""
    /\ UnknownContext(last.ctx)
    /\ MapHas(targets, last.id)
    /\ objs[MapGet(targets, last.id)].context = DefaultContext

\* ===================================================================== C4
\* C4: browserContexts() always lists the default context; a Target registered
\* by a targetCreated event has the BrowserContext registered under the event's
\* browserContextId at that time, and the default context when the id is absent
\* or not registered; its browserContext() never changes afterwards.
C4_TargetContext ==
    [][ /\ browserContexts'[1] = DefaultContext
        /\ \A c \in Range(MapValues(contexts')) : c # DefaultContext
        /\ (last'.op = "targetCreated" /\ Len(objs') = Len(objs) + 1) =>
              /\ MapGet(targets', last'.id) = Len(objs')
              /\ objs'[Len(objs')].context =
                    IF last'.ctx # NoCtx /\ MapHas(contexts, last'.ctx)
                    THEN MapGet(contexts, last'.ctx)
                    ELSE DefaultContext
        /\ \A o \in 1..Len(objs) : objs'[o].context = objs[o].context
      ]_vars

\* a target was registered in context ctx1; ctx1 was closed; the next target of
\* ctx1 was registered in the default context
C4_Witness ==
    /\ Len(objs) = 2
    /\ objs[1].context # DefaultContext
    /\ last.op = "targetCreated"
    /\ UnknownContext(last.ctx)
    /\ last.ctx \in Range(contextObjs)
    /\ MapHas(targets, last.id)
    /\ MapGet(targets, last.id) = 2
    /\ objs[2].context = DefaultContext

\* ===================================================================== C5
\* C5: a targetCreated event that passes the filter for an id that is in the
\* registry fails with 'Target should not exist before targetCreated'; the
\* registry, the registered Target and the pending continuations are unchanged
\* and nothing is emitted.
C5_DuplicateCreation ==
    [][ (last'.op = "targetCreated" /\ MapHas(targets, last'.id) /\ AcceptedCreation) =>
            /\ last'.error = "Target should not exist before targetCreated"
            /\ last'.emits = <<>>
            /\ UNCHANGED <<targets, objs, microtasks, ignoredTargets>> ]_vars

C5_Witness ==
    /\ last.op = "targetCreated"
    /\ last.error = "Target should not exist before targetCreated"
    /\ MapHas(targets, last.id)
    /\ Len(targets) = 2

\* ===================================================================== C6
\* C6: TargetCreated is emitted at most once for a Target, only for a Target
\* whose initialization resolved to success (never for one that resolved to
\* failure), and each time once at Browser scope and once at the scope of the
\* Target's own context.
C6_TargetCreatedOnce ==
    /\ \A o \in 1..Len(objs) :
          /\ objs[o].created <= 1
          /\ objs[o].created = 1 => objs[o].init = "success"
    /\ \A k \in 1..Len(last.emits) :
          last.emits[k].ev = "TargetCreated" =>
             /\ last.emits = Emits("TargetCreated", last.emits[k].target,
                                   objs[last.emits[k].target].context)
             /\ objs[last.emits[k].target].init = "success"
             /\ objs[last.emits[k].target].created = 1

\* one target was announced, another one failed to initialize and was not
C6_Witness ==
    /\ microtasks = <<>>
    /\ \E o1, o2 \in 1..Len(objs) :
          /\ objs[o1].created = 1
          /\ objs[o2].init = "failed" /\ objs[o2].created = 0 /\ objs[o2].closed = 0

\* ===================================================================== C7
\* C7: a targetDestroyed event for a registered target removes its id from the
\* registry, calls _closedCallback once and resolves a pending initialization to
\* failure. TargetDestroyed is emitted (once, at Browser scope and at the scope
\* of the target's context) exactly for the destroyed targets whose
\* initialization had resolved to success; for a target whose initialization
\* resolved to failure neither TargetCreated nor TargetDestroyed is emitted.
C7_TargetDestroyed ==
    [][ /\ (last'.op = "targetDestroyed" /\ last'.id \notin ignoredTargets
              /\ MapHas(targets, last'.id)) =>
              /\ last'.error = ""
              /\ ~MapHas(targets', last'.id)
              /\ Len(targets') = Len(targets) - 1
              /\ LET o == MapGet(targets, last'.id) IN
                    /\ objs[o].closed = 0 /\ objs'[o].closed = 1
                    /\ objs'[o].init = IF objs[o].init = "pending" THEN "failed"
                                       ELSE objs[o].init
        /\ \A o \in 1..Len(objs') :
              /\ objs'[o].closed <= 1
              /\ objs'[o].destroyed <= 1
              /\ objs'[o].destroyed = 1 => (objs'[o].closed = 1 /\ objs'[o].init = "success")
              /\ objs'[o].init = "failed" => (objs'[o].created = 0 /\ objs'[o].destroyed = 0)
              /\ (microtasks' = <<>> /\ objs'[o].closed = 1 /\ objs'[o].init = "success") =>
                    objs'[o].destroyed = 1
        /\ \A k \in 1..Len(last'.emits) :
              last'.emits[k].ev = "TargetDestroyed" =>
                 last'.emits = Emits("TargetDestroyed", last'.emits[k].target,
                                     objs'[last'.emits[k].target].context)
      ]_vars

\* an initialized target and a target that was still attaching were destroyed
C7_Witness ==
    /\ microtasks = <<>>
    /\ \E o1, o2 \in 1..Len(objs) :
          /\ objs[o1].closed = 1 /\ objs[o1].destroyed = 1
          /\ objs[o2].closed = 1 /\ objs[o2].init = "failed" /\ objs[o2].destroyed = 0

\* ===================================================================== C8
\* C8: a targetDestroyed or targetInfoChanged event for an id that is neither
\* registered nor ignored throws 'Missing target ...', emits nothing and changes
\* neither the registry, the ignored set nor the context registry.
C8_UnknownTargetIsFatal ==
    [][ (last'.op \in {"targetDestroyed", "targetInfoChanged"}
            /\ last'.id \notin ignoredTargets /\ ~MapHas(targets, last'.id)) =>
            /\ last'.error = IF last'.op = "targetDestroyed"
                             THEN "Missing target in _targetDestroyed"
                             ELSE "Missing target in targetInfoChanged"
            /\ last'.emits = <<>>
            /\ UNCHANGED <<targets, ignoredTargets, contexts, objs, microtasks>> ]_vars

C8_Witness ==
    /\ last.op = "targetInfoChanged"
    /\ last.error = "Missing target in targetInfoChanged"
    /\ last.id \notin ignoredTargets
    /\ Len(targets) = 1

\* ===================================================================== C9
\* C9: a targetInfoChanged event for a registered target stores the new info and
\* keeps the registry; it emits TargetChanged once at Browser scope and once at
\* the scope of the target's context if the target was initialized before the
\* update and its url changes, and emits nothing otherwise.
C9_TargetChanged ==
    [][ (last'.op = "targetInfoChanged" /\ last'.id \notin ignoredTargets
            /\ MapHas(targets, last'.id)) =>
            LET o == MapGet(targets, last'.id) IN
            /\ last'.error = ""
            /\ targets' = targets
            /\ last'.emits =
                  IF objs[o].init = "success" /\ objs'[o].url # objs[o].url
                  THEN << [ev |-> "TargetChanged", target |-> o, on |-> <<"browser">>],
                          [ev |-> "TargetChanged", target |-> o,
                           on |-> <<"context", objs[o].context>>] >>
                  ELSE <<>>
            /\ \E info \in ChangedInfos(last'.id) :
                  /\ targetInfoChanged(info)
                  /\ objs'[o].url = info.url
                  /\ objs'[o].type = info.type ]_vars

\* the url of an initialized target changed and TargetChanged was emitted
C9_Witness ==
    /\ last.op = "targetInfoChanged"
    /\ Len(last.emits) = 2
    /\ last.emits[1].ev = "TargetChanged"
    /\ objs[last.emits[1].target].url = "https://a.com"

\* ==================================================================== C10
\* C10: for every timeout (the default, a positive one, and 0), a waitForTarget
\* call made while an initialized target satisfies the predicate resolves with
\* such a target without any further event: once the continuations the call
\* left have run, the call has returned one of the targets that satisfied the
\* predicate at call time.
C10_ExistingTargetResolves ==
    \A w \in 1..Len(waits) :
        (waits[w].satisfiedAtCall # {} /\ microtasks = <<>>) =>
            /\ waits[w].status = "resolved"
            /\ waits[w].result \in waits[w].satisfiedAtCall

\* ==================================================================== C11
\* the `check` calls of waitForTarget call w that have not completed
Checks(mt, ev, w) == {k \in Range(mt) \cup ev : k.kind = "check" /\ k.wait = w}
\* the step emitted TargetCreated or TargetChanged for target o on the Browser
\* while waitForTarget call w listened to it
Delivers(w, o) ==
    \E k \in 1..Len(last'.emits) :
        /\ last'.emits[k].ev \in waits[w].listening
        /\ last'.emits[k].on = <<"browser">>
        /\ last'.emits[k].target = o
\* a TargetCreated/TargetChanged event has handed the first waitForTarget call,
\* made with timeout 0, a target, and the predicate has returned true for it
C11_Delivered ==
    /\ Len(waits) >= 1
    /\ waits[1].timeout = 0
    /\ \E k \in Checks(microtasks, {}, 1) : k.value

\* C11: a waitForTarget call with timeout 0 never fails with a TimeoutError; a
\* check of a target starts for it only when a TargetCreated/TargetChanged
\* event delivers the target, with the outcome of the predicate on the
\* delivered target; the call stays pending until such a check has completed
\* with true, and once the predicate has returned true for a delivered target
\* the call eventually resolves with a target whose check returned true.
C11_ZeroTimeoutWaits ==
    /\ [][ \A w \in 1..Len(waits) :
             waits[w].timeout = 0 =>
               /\ waits'[w].status # "timeout"
               /\ \A k \in Checks(microtasks', evaluating', w) \ Checks(microtasks, evaluating, w) :
                     /\ Delivers(w, k.target)
                     /\ k.value = (objs'[k.target].url = waits[w].pred)
               /\ \A o \in 1..Len(objs') :
                     Delivers(w, o) =>
                        Task("check", w, o, objs'[o].url = waits[w].pred)
                           \in Checks(microtasks', evaluating', w)
               /\ (waits'[w].isResolved /\ ~waits[w].isResolved) =>
                     /\ microtasks # <<>>
                     /\ Head(microtasks) = Task("check", w, waits'[w].result, TRUE)
               /\ (waits'[w].status # waits[w].status) =>
                     (waits[w].isResolved /\ waits'[w].status = "resolved"
                        /\ waits'[w].result = waits[w].result)
         ]_vars
    /\ (C11_Delivered ~> ((Len(waits) >= 1 /\ waits[1].status = "resolved") \/ Crashed))

\* a call with timeout 0 was made when no target satisfied the predicate and
\* was resolved by a later event
C11_Witness ==
    /\ Len(waits) = 1
    /\ waits[1].timeout = 0
    /\ waits[1].satisfiedAtCall = {}
    /\ waits[1].status = "resolved"
    /\ objs[waits[1].result].url = waits[1].pred

\* ==================================================================== C12
\* the continuations of waitForTarget call w that a resolution made ready
Returns(mt, w) == SelectSeq(mt, LAMBDA k : k.kind = "return" /\ k.wait = w)

\* C12: a waitForTarget call is resolved at most once. The first check that
\* completes with true sets the result to its target; a check that completes
\* later, or with false, changes nothing; the result, once set, never changes;
\* the call returns at most once, with that result.
C12_ResolvedOnce ==
    [][ \A w \in 1..Len(waits) :
          /\ waits[w].isResolved =>
                (waits'[w].isResolved /\ waits'[w].result = waits[w].result)
          /\ (microtasks # <<>> /\ Head(microtasks).kind = "check" /\ Head(microtasks).wait = w) =>
                IF Head(microtasks).value /\ ~waits[w].isResolved
                THEN waits'[w].isResolved /\ waits'[w].result = Head(microtasks).target
                ELSE waits'[w] = waits[w] /\ Returns(microtasks', w) = Returns(microtasks, w)
          /\ (waits'[w].isResolved /\ ~waits[w].isResolved) =>
                /\ microtasks # <<>>
                /\ Head(microtasks) = Task("check", w, waits'[w].result, TRUE)
          /\ Len(Returns(microtasks', w)) <= 1
          /\ Returns(microtasks', w) # <<>> =>
                (waits'[w].status = "pending" /\ waits'[w].isResolved)
          /\ waits[w].status = "resolved" =>
                (waits'[w].status = "resolved" /\ Returns(microtasks', w) = <<>>)
          /\ waits'[w].status = "resolved" => waits'[w].isResolved
      ]_vars

\* two targets satisfied an asynchronous predicate at call time; the check of
\* the second one completed first and the call returned it; the check of the
\* first one has completed too
C12_Witness ==
    /\ Len(waits) = 1
    /\ waits[1].async
    /\ waits[1].satisfiedAtCall = {1, 2}
    /\ waits[1].status = "resolved"
    /\ waits[1].result = 2
    /\ evaluating = {}
    /\ microtasks = <<>>

\* ==================================================================== C13
\* the waitForTarget calls that have neither returned nor failed
Pending == {w \in 1..Len(waits) : waits[w].status = "pending"}

\* C13: a waitForTarget call that has returned or failed (resolved, timed out)
\* has no listener left on the Browser, a pending call has its TargetCreated and
\* its TargetChanged listener, and so the listeners registered for either event
\* are as many as the pending calls.
C13_ListenersRemoved ==
    /\ \A w \in 1..Len(waits) :
          waits[w].listening = IF w \in Pending THEN {"TargetCreated", "TargetChanged"} ELSE {}
    /\ Len(Listeners("TargetCreated")) = Cardinality(Pending)
    /\ Len(Listeners("TargetChanged")) = Cardinality(Pending)

\* one call timed out, another one is pending and still listens
C13_Witness ==
    /\ Len(waits) = 2
    /\ waits[1].status = "timeout"
    /\ waits[2].status = "pending"
    /\ Listeners("TargetCreated") = <<2>>
    /\ Listeners("TargetChanged") = <<2>>

\* ==================================================================== C14
\* C14: a pending waitForTarget call with a non-zero timeout, for which no
\* check has completed with true, can time out; a call fails with a
\* TimeoutError only in that case, and the timeout changes nothing but that
\* call: not the target registry, the context registry or the ignored set,
\* not the requests in flight, not the other waitForTarget calls.
C14_TimeoutOnlyCaller ==
    /\ [](\A w \in 1..Len(waits) :
             (microtasks = <<>> /\ ~Crashed /\ waits[w].status = "pending"
                 /\ waits[w].timeout # 0) =>
                (~waits[w].isResolved /\ ENABLED waitForTargetTimeout(w)))
    /\ [][ \A w \in 1..Len(waits) :
             (waits'[w].status = "timeout" /\ waits[w].status # "timeout") =>
                /\ waits[w].status = "pending"
                /\ waits[w].timeout # 0
                /\ ~waits[w].isResolved
                /\ last'.error = "TimeoutError"
                /\ last'.emits = <<>>
                /\ UNCHANGED <<targets, contexts, contextObjs, ignoredTargets, requests,
                               objs, microtasks, evaluating>>
                /\ \A v \in 1..Len(waits) : v # w => waits'[v] = waits[v]
         ]_vars

\* a call timed out while a target was registered, a create-context request
\* was in flight and another call was pending
C14_Witness ==
    /\ last.error = "TimeoutError"
    /\ Len(waits) = 2
    /\ waits[1].status = "timeout"
    /\ waits[2].status = "pending"
    /\ requests # <<>>
    /\ BrowserTargets # <<>>

\* ==================================================================== C15
\* C15: overridePermissions fails with 'Unknown permission: <name>' whenever a
\* name of the list has no entry in the table, and then sends nothing; when
\* every name has an entry it sends one Browser.grantPermissions request with
\* the tokens of the names in input order, for the id of this context (none for
\* the default context).
C15_OverridePermissions ==
    [][ \A c \in 0..Len(contextObjs), origin \in Origins, permissions \in PermissionLists :
          overridePermissions(c, origin, permissions) =>
             IF \E i \in 1..Len(permissions) :
                   permissions[i] \notin MapKeys(WEB_PERMISSION_TO_PROTOCOL_PERMISSION)
             THEN /\ \E i \in 1..Len(permissions) :
                        last'.error = "Unknown permission: " \o permissions[i]
                  /\ requests' = requests
             ELSE /\ last'.error = ""
                  /\ Len(requests') = Len(requests) + 1
                  /\ SubSeq(requests', 1, Len(requests)) = requests
                  /\ LET sent == requests'[Len(requests')] IN
                        /\ sent.method = "Browser.grantPermissions"
                        /\ sent.origin = origin
                        /\ sent.ctx = IF c = 0 THEN "" ELSE contextObjs[c]
                        /\ Len(sent.permissions) = Len(permissions)
                        /\ \A i \in 1..Len(permissions) :
                              [key |-> permissions[i], val |-> sent.permissions[i]]
                                 \in Range(WEB_PERMISSION_TO_PROTOCOL_PERMISSION)
      ]_vars

\* an incognito context was asked for a list with a name of the table followed
\* by 'push', and nothing was sent
C15_Witness ==
    /\ last.op = "overridePermissions"
    /\ last.error = "Unknown permission: push"
    /\ Len(contextObjs) = 1
    /\ requests = <<>>

\* ==================================================================== C16
\* C16: close() on the default context always fails with the error for an
\* invalid operation, sends no dispose request and leaves the context registry
\* as it is; when the dispose request of a close() on an incognito context is
\* answered with success, browserContexts() loses that context and no other.
C16_Close ==
    [][ /\ close(DefaultContext) =>
             /\ last'.error = "Non-incognito profiles cannot be closed!"
             /\ requests' = requests
             /\ contexts' = contexts
             /\ browserContexts' = browserContexts
        /\ \A c \in 1..Len(contextObjs) :
             close(c) =>
                /\ last'.error = ""
                /\ requests' = Append(requests,
                       [method |-> "Target.disposeBrowserContext", ctx |-> contextObjs[c]])
                /\ browserContexts' = browserContexts
        /\ \A r \in 1..Len(requests), c \in 1..Len(contextObjs) :
             ( /\ requests[r].method = "Target.disposeBrowserContext"
               /\ requests[r].ctx = contextObjs[c]
               /\ DisposeContextResume(r, TRUE) ) =>
                /\ browserContexts' = SelectSeq(browserContexts, LAMBDA x : x # c)
                /\ c \notin Range(browserContexts')
                /\ DefaultContext \in Range(browserContexts')
      ]_vars

\* one of two registered incognito contexts was closed and the other is still
\* returned by browserContexts()
C16_Witness ==
    /\ last.op = "close resumed"
    /\ last.error = ""
    /\ Len(contextObjs) = 2
    /\ Len(browserContexts) = 2

\* ==================================================================== C17
\* C17: browserContexts() returns the default context first and then the
\* incognito contexts that are registered, in the order of their registration
\* (context objects are numbered in the order of their construction, which is
\* the order of their registration); a browser made with no initial context in
\* which one context is created under the id "ctx1" returns [default, ctx1];
\* the context createIncognitoBrowserContext constructs and returns is the one
\* registered under the id of the response.
C17_BrowserContexts ==
    /\ [] /\ Head(browserContexts) = DefaultContext
          /\ \A i, j \in 2..Len(browserContexts) :
                i < j => browserContexts[i] < browserContexts[j]
          /\ \A i \in 2..Len(browserContexts) :
                /\ browserContexts[i] \in 1..Len(contextObjs)
                /\ MapGet(contexts, contextObjs[browserContexts[i]]) = browserContexts[i]
    /\ [][ \A r \in 1..Len(requests), id \in CtxIds :
             createIncognitoBrowserContextResume(r, id, TRUE) =>
                LET context == Len(contextObjs) + 1 IN
                /\ browserContexts' = Append(browserContexts, context)
                /\ contextObjs'[context] = id
                /\ MapGet(contexts', id) = context
                /\ (contextObjs = <<>> /\ id = "ctx1") => browserContexts' = <<DefaultContext, 1>>
         ]_vars

\* the browser was made with no context, and the one context created since is
\* registered under "ctx1"
C17_Witness ==
    /\ last.op = "createIncognitoBrowserContext resumed"
    /\ last.error = ""
    /\ contextObjs = <<"ctx1">>
    /\ browserContexts = <<DefaultContext, 1>>

\* ==================================================================== C18
\* C18: Browser.targets() holds exactly the registered targets whose
\* initialized flag is set, each once; for every context object c, c.targets()
\* holds exactly the elements of Browser.targets() whose owning context is the
\* object c, so every element of Browser.targets() is in the targets() of one
\* context object and of no other.
C18_Targets ==
    /\ \A o \in 1..Len(objs) :
          (o \in Range(BrowserTargets)) <=>
             /\ \E i \in 1..Len(targets) : targets[i].val = o
             /\ objs[o].init = "success"
    /\ Cardinality(Range(BrowserTargets)) = Len(BrowserTargets)
    /\ \A c \in 0..Len(contextObjs) :
          /\ Range(ContextTargets(c)) = {o \in Range(BrowserTargets) : objs[o].context = c}
          /\ Cardinality(Range(ContextTargets(c))) = Len(ContextTargets(c))
    /\ \A o \in Range(BrowserTargets) :
          Cardinality({c \in 0..Len(contextObjs) : o \in Range(ContextTargets(c))}) = 1

\* two targets are registered: the one of the incognito context is initialized,
\* the one of the default context is not
C18_Witness ==
    /\ Len(targets) = 2
    /\ Len(ContextTargets(1)) = 1
    /\ ContextTargets(DefaultContext) = <<>>
    /\ \E i \in 1..2 : /\ objs[targets[i].val].context = DefaultContext
                       /\ objs[targets[i].val].init = "pending"

\* ==================================================================== C19
\* the place of target o in the sequence s
IndexOf(s, o) == CHOOSE i \in 1..Len(s) : s[i] = o

\* C19: a pages() call on context c resolves to the pages of the targets of
\* c.targets() that are of type 'page', or of type 'other' and accepted by the
\* page classification, without those whose page() resolves to no page, each
\* once and in the order of c.targets(); a pages() call on the Browser resolves
\* to the pages() of the contexts of browserContexts(), one context after the
\* other in that order.
C19_Pages ==
    [][ /\ \A c \in 0..Len(contextObjs) :
             contextPages(c) =>
                LET result == last'.pages IN
                /\ \A o \in 1..Len(objs) :
                      (o \in Range(result)) <=>
                         /\ o \in Range(ContextTargets(c))
                         /\ \/ objs[o].type = "page"
                            \/ objs[o].type = "other" /\ "other" \in isPageTargetCallback
                         /\ Page(o) # 0
                /\ \A i, j \in 1..Len(result) :
                      i < j => IndexOf(ContextTargets(c), result[i])
                                  < IndexOf(ContextTargets(c), result[j])
        /\ browserPages =>
             LET result == last'.pages IN
             /\ \A c \in 0..Len(contextObjs) :
                   SelectSeq(result, LAMBDA o : objs[o].context = c) =
                      IF c \in Range(browserContexts) THEN ContextPages(c) ELSE <<>>
             /\ \A i, j \in 1..Len(result) :
                   i < j => IndexOf(browserContexts, objs[result[i]].context)
                               <= IndexOf(browserContexts, objs[result[j]].context)
      ]_vars

\* Browser.pages() has resolved to the page of the incognito context's target,
\* while the default context has a target of type 'page' that the page
\* classification rejects
C19_Witness ==
    /\ last.op = "pages"
    /\ last.context = <<>>
    /\ Len(last.pages) = 1
    /\ objs[last.pages[1]].context = 1
    /\ \E o \in Range(ContextTargets(DefaultContext)) :
          objs[o].type = "page" /\ Page(o) = 0

C21_DisconnectedOnce ==
    /\ [](browserDisconnected = IF isConnected THEN 0 ELSE 1)
    /\ [][ /\ browserDisconnected' # browserDisconnected => (isConnected /\ ~isConnected')
           /\ (browserDisconnect \/ transportClosed
                 \/ \E k \in 1..Len(closeCalls) : browserCloseResume(k, TRUE)) =>
                 browserDisconnected' = 1
         ]_vars

\* a close() call returned, and then disconnect() was called and the transport
\* closed: one Disconnected event
C21_Witness ==
    /\ last.op = "transport closed"
    /\ \E k \in 1..Len(closeCalls) : closeCalls[k] = "returned"
    /\ connection.disconnected = 1
    /\ browserDisconnected = 1

\* ==================================================================== C22
\* the `check` calls of waitForTarget call w that the step has started
Started(w) == Checks(microtasks', evaluating', w) \ Checks(microtasks, evaluating, w)

\* the calls of user predicates a step made
CallsOf(step) == IF "calls" \in DOMAIN step THEN step.calls ELSE {}

\* C22: a waitForTarget call on context c is resolved only by a check of a
\* target owned by c on which the user predicate returned true, so its result
\* is a target of c; a check of a target of another context completes with
\* false without calling the user predicate (it does not wait for a promise of
\* the predicate), and every check of a target of c calls it.
C22_ContextWaitForTarget ==
    /\ [](\A w \in 1..Len(waits) : (waits[w].context # <<>> /\ waits[w].isResolved) =>
              objs[waits[w].result].context = waits[w].context[1])
    /\ [][ \A w \in 1..Len(waits') : waits'[w].context # <<>> =>
              LET c == waits'[w].context[1] IN
              /\ \A k \in Started(w) :
                    /\ objs'[k.target].context # c =>
                          /\ ~k.value
                          /\ k \notin evaluating'
                          /\ [wait |-> w, target |-> k.target] \notin CallsOf(last')
                    /\ objs'[k.target].context = c =>
                          /\ k.value = (objs'[k.target].url = waits'[w].pred)
                          /\ (k \in evaluating') = waits'[w].async
                          /\ [wait |-> w, target |-> k.target] \in CallsOf(last')
              /\ \A call \in CallsOf(last') :
                    call.wait = w =>
                       /\ objs'[call.target].context = c
                       /\ \E k \in Checks(microtasks', evaluating', w) : k.target = call.target
              /\ (w <= Len(waits) /\ waits'[w].isResolved /\ ~waits[w].isResolved) =>
                    /\ Head(microtasks) = Task("check", w, waits'[w].result, TRUE)
                    /\ objs[waits'[w].result].context = c
         ]_vars

\* a waitForTarget call on the incognito context is pending with nothing left
\* to run, while an initialized target of the default context has the url the
\* predicate looks for
C22_Witness ==
    /\ Len(waits) = 1
    /\ waits[1].context = <<1>>
    /\ waits[1].status = "pending" /\ ~waits[1].isResolved
    /\ microtasks = <<>> /\ evaluating = {}
    /\ \E o \in Range(BrowserTargets) :
          objs[o].context = DefaultContext /\ objs[o].url = waits[1].pred

\* ==================================================================== C23
\* the registry and the ignored set
Registry == <<targets, ignoredTargets>>
\* what a targetCreated event does to them when the events are handled one
\* after the other: an id the filter rejects is ignored, a new id is registered
\* for a new Target object, a registered id is an error
AppliedCreated(registry, info, object) ==
    IF info.type \in targetFilter THEN <<registry[1], registry[2] \cup {info.targetId}>>
    ELSE IF \E i \in 1..Len(registry[1]) : registry[1][i].key = info.targetId THEN registry
    ELSE <<Append(registry[1], [key |-> info.targetId, val |-> object]), registry[2]>>
\* and a targetDestroyed event: the entry of an id that is not ignored goes
AppliedDestroyed(registry, id) ==
    IF id \in registry[2] THEN registry
    ELSE <<SelectSeq(registry[1], LAMBDA e : e.key # id), registry[2]>>

\* C23: every targetCreated and targetDestroyed event changes the registry
\* and the ignored set in the step that dispatches it, to what handling the
\* event alone would make of them, whichever handlers are suspended; a
\* targetInfoChanged event and every later step of a handler (its continuation
\* after the await, the end of an attach) leave them as they are. So after k
\* events they are what the k events make of them one after the other.
C23_RegistrySerialized ==
    [][ /\ last'.op = "targetCreated" =>
              \A info \in TargetInfos(last'.id, {last'.ctx}) :
                 targetCreated(info) => Registry' = AppliedCreated(Registry, info, Len(objs) + 1)
        /\ last'.op = "targetDestroyed" =>
              /\ targetDestroyed(last'.id)
              /\ Registry' = AppliedDestroyed(Registry, last'.id)
        /\ last'.op \notin {"targetCreated", "targetDestroyed"} => Registry' = Registry
      ]_vars

\* the continuation of a targetCreated handler has run after its target was
\* destroyed, and the registry is empty
C23_Witness ==
    /\ last.op = "targetCreated resumed"
    /\ last.emits = <<>>
    /\ targets = <<>>
    /\ Len(objs) = 1
    /\ objs[1].closed = 1

\* ==================================================================== C24
\* C24: Target objects are numbered in the arrival order of their targetCreated
\* events. When A arrived before B and both have initialized successfully, B's
\* TargetCreated notification is never out while A's is not.
C24_NotifiedInArrivalOrder ==
    \A a, b \in 1..Len(objs) :
        (a < b /\ objs[a].init = "success" /\ objs[b].init = "success") =>
            (objs[b].created >= 1 => objs[a].created >= 1)

\* ======================================================= the render queue
\* the job the caller hands to addJob
NewJob(id, type) ==
    [id |-> id, type |-> type, status |-> "idle", cleanup |-> <<>>,
     deletedOutputLocation |-> FALSE, error |-> ""]
\* the output location of a job: one file per job
OutputLocation(id) == id

JobStep(op, id, notified) == [op |-> op, id |-> id, notified |-> notified]

\* an updater `(job) => ({...job, <fields>, cleanup: [...job.cleanup, <unwatch>]})`
Updated(job, fields, unwatch) ==
    [f \in DOMAIN job |->
        IF f = "cleanup" THEN job.cleanup \o unwatch
        ELSE IF f \in DOMAIN fields THEN fields[f] ELSE job[f]]
\* an update that does not compare the ids
UpdateJob_All(q, id, fields, unwatch) ==
    [i \in 1..Len(q) |-> Updated(q[i], fields, unwatch)]
\* updateJob(id, updater) without the notification: `jobQueue.map(..)`
UpdateJob(q, id, fields, unwatch) ==
    [i \in 1..Len(q) |-> IF q[i].id = id THEN Updated(q[i], fields, unwatch) ELSE q[i]]
Running == [status |-> "running"]
Done == [status |-> "done"]
Failed == [status |-> "failed", error |-> "Error"]

\* getRenderQueue(): the jobs without their cleanup
getRenderQueue ==
    [i \in 1..Len(jobQueue) |->
        [f \in (DOMAIN jobQueue[i]) \ {"cleanup"} |-> jobQueue[i][f]]]

\* a queue that puts a new job first
Pushed_First(q, job) == <<job>> \o q
\* `jobQueue.push(job)`
Pushed(q, job) == Append(q, job)

\* a find that looks for a running job
NextJob_Running(q) ==
    IF \E i \in 1..Len(q) : q[i].status = "running"
    THEN CHOOSE i \in 1..Len(q) :
            q[i].status = "running" /\ \A k \in 1..(i - 1) : q[k].status # "running"
    ELSE 0
\* `jobQueue.find((q) => q.status === 'idle')`: its index, 0 when there is none
NextJob(q) ==
    IF \E i \in 1..Len(q) : q[i].status = "idle"
    THEN CHOOSE i \in 1..Len(q) :
            q[i].status = "idle" /\ \A k \in 1..(i - 1) : q[k].status # "idle"
    ELSE 0

\* addJob({job, ..}): push, then processJobIfPossible up to `await processJob(..)`,
\* then the notification
addJob(job) ==
    LET q == Pushed(jobQueue, job)
        n == NextJob(q)
    IN
    /\ added' = added + 1
    /\ IF n = 0
       THEN /\ jobQueue' = q
            /\ lastJob' = JobStep("addJob", job.id, 1)
            /\ UNCHANGED processing
       ELSE /\ jobQueue' = UpdateJob(q, q[n].id, Running, <<>>)
            /\ processing' = processing \cup {[id |-> q[n].id, type |-> q[n].type]}
            /\ lastJob' = JobStep("addJob", job.id, 2)
    /\ UNCHANGED <<watchers, liveEvents>>

\* the watchers after the cleanup functions of the jobs with this id ran
Cleaned(jobId) ==
    [w \in 1..Len(watchers) |->
        IF \E i \in 1..Len(jobQueue) :
              jobQueue[i].id = jobId /\ w \in Range(jobQueue[i].cleanup)
        THEN [watchers[w] EXCEPT !.unwatched = @ + 1]
        ELSE watchers[w]]

\* removeJob(jobId)
removeJob(jobId) ==
    /\ jobQueue' = SelectSeq(jobQueue, LAMBDA job : job.id # jobId)
    /\ watchers' = Cleaned(jobId)
    /\ lastJob' = JobStep("removeJob", jobId, 1)
    /\ UNCHANGED <<processing, liveEvents, added>>

\* processJobIfPossible after `await processJob(..)` returned or threw
processJobResume(p, ok) ==
    /\ p \in processing
    /\ processing' = processing \ {p}
    /\ IF ok
       THEN /\ watchers' = Append(watchers, [file |-> OutputLocation(p.id), unwatched |-> 0])
            /\ jobQueue' = UpdateJob(jobQueue, p.id, Done, <<Len(watchers) + 1>>)
            /\ lastJob' = JobStep("done", p.id, 1)
            /\ UNCHANGED liveEvents
       ELSE /\ jobQueue' = UpdateJob(jobQueue, p.id, Failed, <<>>)
            /\ liveEvents' = liveEvents \cup {[type |-> "render-job-failed", job |-> p.id]}
            /\ lastJob' = JobStep("failed", p.id, 1)
            /\ UNCHANGED watchers
    /\ UNCHANGED added

\* the onChange callback of the watcher installed for a job
onChange(w, type) ==
    /\ watchers[w].unwatched = 0
    /\ jobQueue' = UpdateJob(jobQueue, watchers[w].file,
                             [deletedOutputLocation |-> (type = "deleted")], <<>>)
    /\ lastJob' = JobStep("onChange", watchers[w].file, 1)
    /\ UNCHANGED <<processing, watchers, liveEvents, added>>

\* everything of the Browser
browser == <<contexts, contextObjs, requests, targets, ignoredTargets, targetFilter,
             isPageTargetCallback, objs, microtasks, waits, evaluating, closing, idHist, last,
             newPages>>

AddJob ==
    /\ added < MaxJobs
    /\ \E type \in JobTypes : addJob(NewJob(JobIdSeq[added + 1], type))
    /\ UNCHANGED browser
RemoveJob ==
    /\ \E i \in 1..Len(jobQueue) : removeJob(jobQueue[i].id)
    /\ UNCHANGED browser
\* processStill returns or throws; processJob of another type returns
JobSettled ==
    /\ \E p \in processing, ok \in BOOLEAN :
          /\ (p.type # "still" => ok)
          /\ processJobResume(p, ok)
    /\ UNCHANGED browser
FileChanged ==
    /\ \E w \in 1..Len(watchers), type \in {"created", "deleted"} : onChange(w, type)
    /\ UNCHANGED browser

NextQueue == AddJob \/ RemoveJob \/ JobSettled \/ FileChanged
SpecQueue == InitWait /\ [][NextQueue]_vars

\* ==================================================================== C25
\* the place of a job id in the order of the addJob calls
JobIndex(id) == CHOOSE n \in 1..Len(JobIdSeq) : JobIdSeq[n] = id
IsRunning(q, id) == \E i \in 1..Len(q) : q[i].id = id /\ q[i].status = "running"

\* C25: getRenderQueue() lists the jobs in the order of their addJob calls, and
\* a step moves a job to 'running' only when no job before it in the queue
\* (added before it and not removed) is 'idle'.
C25_Fifo ==
    /\ [](\A i, k \in 1..Len(getRenderQueue) :
             i < k => JobIndex(getRenderQueue[i].id) < JobIndex(getRenderQueue[k].id))
    /\ [][ \A i \in 1..Len(jobQueue') :
              (jobQueue'[i].status = "running" /\ ~IsRunning(jobQueue, jobQueue'[i].id)) =>
                 \A k \in 1..(i - 1) : jobQueue'[k].status # "idle" ]_vars

\* addJob has moved the second job of the queue to 'running'; the job before
\* it had left 'idle' and has finished
C25_Witness ==
    /\ lastJob.op = "addJob"
    /\ Len(jobQueue) = 2
    /\ jobQueue[2].status = "running"
    /\ jobQueue[1].status = "done"

\* ==================================================================== C30
\* C30: at most one job of the queue has status 'running'.
C30_OneRunning ==
    \A i, k \in 1..Len(jobQueue) :
        (jobQueue[i].status = "running" /\ jobQueue[k].status = "running") => i = k

\* ==================================================================== C26
\* C26: for every Target object, TargetDestroyed is emitted at most once and
\* only when TargetCreated was emitted for it before, and no step emits
\* TargetChanged for a target whose TargetDestroyed has been emitted.
C26_NotificationOrder ==
    /\ [](\A o \in 1..Len(objs) :
             /\ objs[o].destroyed <= 1
             /\ objs[o].destroyed >= 1 => objs[o].created >= 1)
    /\ [][ /\ \A k \in 1..Len(last'.emits) :
                 last'.emits[k].ev = "TargetChanged" => objs'[last'.emits[k].target].destroyed = 0
           /\ \A o \in 1..Len(objs) :
                 objs'[o].destroyed > objs[o].destroyed =>
                    /\ objs[o].created = 1
                    /\ objs[o].destroyed = 0
                    /\ ~MapHas(targets, objs[o].id) \/ MapGet(targets, objs[o].id) # o ]_vars

\* TargetDestroyed has just been emitted for a target whose url had changed
\* after its TargetCreated
C26_Witness ==
    /\ last.op = "targetDestroyed resumed"
    /\ Len(last.emits) = 2
    /\ objs[last.emits[1].target].destroyed = 1
    /\ objs[last.emits[1].target].created = 1
    /\ objs[last.emits[1].target].url = "https://a.com"

\* ==================================================================== C27
\* C27: the owning context of every target of Browser.targets() is one of
\* browserContexts(), so the targets() of the listed contexts together are
\* Browser.targets().
C27_TargetsOfListedContexts ==
    /\ \A o \in Range(BrowserTargets) : objs[o].context \in Range(browserContexts)
    /\ Range(BrowserTargets) =
          UNION {Range(ContextTargets(browserContexts[i])) : i \in 1..Len(browserContexts)}

\* ------------------------------------------------- newPage and its target
\* BrowserContext.newPage() on any context; the remote side gives the target
\* the first id it has not used
NewPage ==
    /\ Idle
    /\ Len(newPages) < MaxTargets
    /\ \E c \in 0..Len(contextObjs) :
          createPageInContext(c, TargetIdSeq[Len(newPages) + 1])
\* the targetCreated event for the target of a call arrives, before or after the
\* response
NewPageCreatedEvent ==
    /\ Idle
    /\ \E n \in 1..Len(newPages) :
          /\ newPages[n].targetId \notin SeenIds
          /\ targetCreated([targetId |-> newPages[n].targetId, type |-> "page",
                            url |-> "about:blank", browserContextId |-> newPages[n].ctx])
\* the response to a call arrives
NewPageResponse ==
    /\ Idle
    /\ \E n \in 1..Len(newPages), ok \in BOOLEAN : createPageInContextResponse(n, ok)

InitNewPage == InitTargets /\ Len(contextObjs) <= 1
NextNewPage ==
    NewPage \/ NewPageCreatedEvent \/ NewPageResponse \/ AttachDone \/ RunMicrotask
SpecNewPage == InitNewPage /\ [][NextNewPage]_vars

\* ==================================================================== C28
\* C28: a newPage call for which the remote side created the target and whose
\* target the filter accepts fails only because the initialization of the
\* target failed or the target has no page, whichever of the response and the
\* targetCreated event was processed first.
C28_NewPageAnyOrder ==
    \A n \in 1..Len(newPages) :
        (newPages[n].status = "failed" /\ newPages[n].error # "ProtocolError"
            /\ "page" \notin targetFilter) =>
           newPages[n].error \in {"Failed to create target for page",
                                  "Failed to create a page for context"}

\* ==================================================================== C29
\* C29: the step that resolves a waitForTarget call resolves it with a target
\* that is in the target registry, also when the predicate was asynchronous.
C29_ResolvedTargetRegistered ==
    [][ \A w \in 1..Len(waits) :
           (waits'[w].isResolved /\ ~waits[w].isResolved) =>
              /\ MapHas(targets', objs'[waits'[w].result].id)
              /\ MapGet(targets', objs'[waits'[w].result].id) = waits'[w].result ]_vars

\* ==================================================================== C31
\* C31: a job enters the queue in its own addJob call, which takes it from
\* 'idle' to 'running'; afterwards its status only goes from 'running' to
\* 'done' or to 'failed' and a 'done' or 'failed' job keeps its status; a
\* failed job carries the error message and a 'render-job-failed' event was
\* sent for it; the step in which a job fails changes no other job; and the
\* only job a step adds to the queue is the new job of addJob, so a removed job
\* is not listed again when its processing completes or fails.
C31_JobStatus ==
    /\ [](\A i \in 1..Len(jobQueue) :
             /\ jobQueue[i].status \in {"running", "done", "failed"}
             /\ jobQueue[i].status = "failed" =>
                   /\ jobQueue[i].error # ""
                   /\ [type |-> "render-job-failed", job |-> jobQueue[i].id] \in liveEvents)
    /\ [][ \A k \in 1..Len(jobQueue') :
              LET new == jobQueue'[k]
                  old == {jobQueue[i] : i \in {j \in 1..Len(jobQueue) : jobQueue[j].id = new.id}}
              IN
              /\ old = {} =>
                    /\ lastJob'.op = "addJob"
                    /\ new = Updated(NewJob(JobIdSeq[added + 1], new.type), Running, <<>>)
              /\ \A job \in old :
                    /\ new.status # job.status =>
                          /\ job.status = "running"
                          /\ new.status \in {"done", "failed"}
                          /\ lastJob' = JobStep(new.status, new.id, 1)
                    /\ (lastJob'.op = "failed" /\ lastJob'.id # new.id) => new = job
         ]_vars

\* the processing of j1 has failed while j2 is running: j1 is 'failed' with
\* its error and j2 is as it was; j3 was removed while it was running
C31_Witness ==
    /\ lastJob = JobStep("failed", "j1", 1)
    /\ Len(jobQueue) = 2
    /\ jobQueue[1].id = "j1" /\ jobQueue[1].status = "failed" /\ jobQueue[1].error = "Error"
    /\ jobQueue[2].id = "j2" /\ jobQueue[2].status = "running"
    /\ \E p \in processing : p.id = "j3"

\* ==================================================================== C32
\* C32: once a job is no longer listed and its processing has finished, the
\* unwatch function of every watcher installed on its output location has been
\* called exactly once.
C32_WatchersReleased ==
    \A w \in 1..Len(watchers) :
        ( /\ \A i \in 1..Len(jobQueue) : jobQueue[i].id # watchers[w].file
          /\ \A p \in processing : p.id # watchers[w].file ) =>
            watchers[w].unwatched = 1

\* ==================================================================== C33
\* every processJob call terminates: it returns or throws
SpecQueueLive == SpecQueue /\ WF_vars(JobSettled)

\* C33: a job that is listed is eventually 'done' or 'failed', or removed; no
\* further addJob call is needed for that.
C33_JobsFinish ==
    \A n \in 1..Len(JobIdSeq) :
        (\E i \in 1..Len(jobQueue) : jobQueue[i].id = JobIdSeq[n])
           ~> (\A i \in 1..Len(jobQueue) :
                  jobQueue[i].id = JobIdSeq[n] => jobQueue[i].status \in {"done", "failed"})

\* all three jobs were added one after the other while the earlier ones were
\* running, and all have finished, the last one with an error
C33_Witness ==
    /\ Len(jobQueue) = 3
    /\ jobQueue[1].status = "done"
    /\ jobQueue[2].status = "done"
    /\ lastJob = JobStep("failed", "j3", 1)
    /\ processing = {}

====
